---- MODULE Spec2Model ----
(***************************************************************************)
(* mongoose-versioner: the version protocol of src/index.js.               *)
(*                                                                         *)
(* Two collections of one document store: the primary collection `model`   *)
(* (Active Documents, each with a versionId pointer) and the shadow        *)
(* collection `shadowModel` (Version Records, each with a versionOfId      *)
(* back-reference).  Every protocol operation is a chain of store          *)
(* round-trips; one action of this module is one round-trip executed by    *)
(* the store together with the callback code that runs on its result, up   *)
(* to the next request the callback issues.                                *)
(***************************************************************************)
EXTENDS Integers, FiniteSets, Sequences, TLC

\* ---------------------------------------------------------------- bounds
\* Number of ObjectIds handed out (to new Version Records and new Active
\* Documents together).
MaxIds == 4
\* The same, in the specifications in which the store may answer with an
\* error (SpecFail, SpecFork).
MaxIdsFail == 3

\* The same, in the specifications in which two callers save versions
\* (SpecSaveRace) or one saves while the other activates (SpecActivateRace).
MaxIdsRace == 3

\* `null` (src/index.js:297, `dataObj.versionOfId || null`).
Null == 0

\* Ids are ObjectIds: unique, never reused.  Version Records get 1, 2, ...,
\* Active Documents get -1, -2, ...
\* An id no document of the collection ever has (a caller may pass anything).
StaleActiveId == 0 - (MaxIds + 1)
\* Values of the domain field `title`: the protocol copies them and never
\* looks at them, so two distinct values show every copy that goes wrong.
Data == {1, 2}

\* Callers: each runs one protocol operation at a time.
Procs == {1, 2}

VARIABLES
  model,        \* primary collection: Active Document id -> [title, versionId]
  shadowModel,  \* shadow collection: Version Record id -> [title, versionOfId]
  nextVersion,  \* number of Version Record ids handed out so far
  nextActive,   \* number of Active Document ids handed out so far
  pc,           \* per caller: the store round-trip its operation waits for
  call,         \* per caller: the operation and its arguments
  versDoc,      \* per caller: the in-memory Version Record (versDoc/versSaved/result/version)
  original,     \* per caller: the in-memory Active Document (original/active)
  delivered,    \* per caller: what the callback of the current call has been given
  pre,          \* per caller: both collections as they were when the call was made
  options,      \* plugin options append_only and delete_flag (src/unnamed/part_000)
  flagged,      \* ids of the Version Records whose delete flag is set
  removals,     \* ids of the Version Records with a `versSaved.remove()` under way
  plugin        \* the primary schema, the link field names, the shadow schema
                \* and the shadow models registered on each connection

vars == <<model, shadowModel, nextVersion, nextActive, pc, call, versDoc, original,
          delivered, pre, options, flagged, removals, plugin>>

\* What only upsertVersion and deleteOriginal read or write.
forkVars == <<options, flagged, removals, plugin>>

\* ------------------------------------------------------ in-memory documents
\* A mongoose document: its fields, whether it was never saved (isNew) and
\* the paths assigned a value different from the stored one (modified).
NoDoc == [id |-> Null, title |-> Null, link |-> Null, isNew |-> FALSE, modified |-> {}]

\* A document hydrated from a stored record (link is versionId of an Active
\* Document, versionOfId of a Version Record).
Hydrate(id, rec) ==
  [id |-> id, title |-> rec.title, link |-> rec.link, isNew |-> FALSE, modified |-> {}]

\* `new shadowModel(data)` / `new model()`: a fresh id, nothing stored yet.
NewDoc(id, title) ==
  [id |-> id, title |-> title, link |-> Null, isNew |-> TRUE, modified |-> {}]

\* `doc[key] = val`: the path is marked modified when the value changes.
SetPath(doc, key, val) ==
  IF doc[key] = val THEN doc
  ELSE [doc EXCEPT ![key] = val, !.modified = @ \cup {key}]

\* The stored record of a document.
Stored(doc) == [title |-> doc.title, link |-> doc.link]

\* `doc.save()` against a collection: an insert for a new document, else an
\* update of the modified paths of the stored record with that id (which
\* changes nothing when no such record is stored any more).
SaveInto(coll, doc) ==
  IF doc.isNew THEN [i \in DOMAIN coll \cup {doc.id} |->
                       IF i = doc.id THEN Stored(doc) ELSE coll[i]]
  ELSE IF doc.id \in DOMAIN coll
       THEN [coll EXCEPT ![doc.id] =
               [title |-> IF "title" \in doc.modified THEN doc.title ELSE @.title,
                link  |-> IF "link" \in doc.modified THEN doc.link ELSE @.link]]
       ELSE coll

\* The document handed to the save callback: stored, nothing modified.
Saved(doc) == [doc EXCEPT !.isNew = FALSE, !.modified = {}]

\* `findById(id)`: the document with that id, or null.
FindById(coll, id) == IF id \in DOMAIN coll THEN Hydrate(id, coll[id]) ELSE NoDoc

\* ---------------------------------------------------------- callback results
NoValue ==
  [kind |-> "none", id |-> Null, title |-> Null, link |-> Null, success |-> FALSE,
   docs |-> {}]
DocValue(kind, doc) ==
  [kind |-> kind, id |-> doc.id, title |-> doc.title, link |-> doc.link,
   success |-> FALSE, docs |-> {}]
StatusValue(b) ==
  [kind |-> "status", id |-> Null, title |-> Null, link |-> Null, success |-> b,
   docs |-> {}]
\* returnObj of findVersions, {activeId, docs} (activeId is kept in `link`),
\* and the result array of the instance method (activeId null).
VersionsValue(activeId, docs) ==
  [kind |-> "versions", id |-> Null, title |-> Null, link |-> activeId,
   success |-> FALSE, docs |-> docs]

\* callback(err, value)
Callback(p, err, value) ==
  delivered' = [delivered EXCEPT ![p] = Append(@, [err |-> err, value |-> value])]

NoCall == [op |-> "none", data |-> Null, versionId |-> Null, versionOfId |-> Null, id |-> Null]
\* What is kept of the call a caller made before its current one.
NoPrev == [op |-> "none", id |-> Null, ok |-> FALSE, was |-> Null, data |-> Null]
NoPre ==
  [model |-> <<>>, shadowModel |-> <<>>, removals |-> {}, flagged |-> {}, prev |-> NoPrev]

InitStore ==
  /\ model = <<>>
  /\ shadowModel = <<>>
  /\ nextVersion = 0
  /\ nextActive = 0
  /\ pc = [p \in Procs |-> "idle"]
  /\ call = [p \in Procs |-> NoCall]
  /\ versDoc = [p \in Procs |-> NoDoc]
  /\ original = [p \in Procs |-> NoDoc]
  /\ delivered = [p \in Procs |-> <<>>]
  /\ pre = [p \in Procs |-> NoPre]
  /\ flagged = {}
  /\ removals = {}

\* ------------------------------------------------------------ plugin setup
\* A schema is the set of its path names.  options.delete_flag names this
\* path when it is set.
DeleteFlag == "deleted"

\* The connections (mongoose instances) the model is used on.
Conns == {1, 2}

\* shadowName = modelName + 'Shadow', and the absence of a registered model.
ShadowName == "StoryShadow"
NoModel == [conn |-> 0, name |-> ""]

\* A schema the plugin has not been applied to, with options.versionIdPath
\* and options.versionOfIdPath; no connection has a shadow model yet.
Declared(schema, versionIdPath, versionOfIdPath) ==
  [declared |-> schema, schema |-> schema, shadowSchema |-> {},
   versionIdPath |-> versionIdPath, versionOfIdPath |-> versionOfIdPath,
   state |-> "declared", by |-> "none",
   models |-> [c \in Conns |-> NoModel],
   registered |-> [c \in Conns |-> 0],
   result |-> [conn |-> 0, handle |-> NoModel, err |-> FALSE],
   collections |-> [c \in Conns |-> {}]]

\* Mutant: _id is cloned too.
EachPathWithId(schema) == schema

\* schema.eachPath: shadowFields[key] = value.options for every key but _id.
EachPath(schema) == schema \ {"_id"}

\* module.exports of src/index.js: throws when versionOfIdPath is among the
\* cloned paths or versionIdPath among the schema's; else adds versionOfIdPath
\* to the shadow fields, versionIdPath to the schema, and makes the shadow
\* schema.
Plugin(p) ==
  LET shadowFields == EachPath(p.schema)
  IN IF p.versionOfIdPath \in shadowFields \/ p.versionIdPath \in p.schema
     THEN [p EXCEPT !.state = "error", !.by = "index"]
     ELSE [p EXCEPT !.schema = @ \cup {p.versionIdPath},
                    !.shadowSchema = shadowFields \cup {p.versionOfIdPath},
                    !.state = "ok", !.by = "index"]

\* module.exports of src/unnamed/part_000: adds versionOfIdPath and the
\* delete flag to the shadow fields and versionIdPath to the schema unless
\* they are there, and makes the shadow schema.
ForkPlugin(p, opts) ==
  LET shadowFields == EachPath(p.schema)
  IN [p EXCEPT !.schema = @ \cup {p.versionIdPath},
               !.shadowSchema = shadowFields \cup {p.versionOfIdPath}
                                  \cup (IF opts.delete_flag THEN {DeleteFlag} ELSE {}),
               !.state = "ok", !.by = "fork"]

\* The schema of the documents of this model: _id and title.
StorySchema == Declared({"_id", "title"}, "versionId", "versionOfId")

\* src/index.js has no options append_only and delete_flag.
Init ==
  /\ InitStore
  /\ options = [append_only |-> FALSE, delete_flag |-> FALSE]
  /\ plugin = Plugin(StorySchema)

\* src/unnamed/part_000: the plugin is set up with any options.
InitFork ==
  /\ InitStore
  /\ options \in [append_only : BOOLEAN, delete_flag : BOOLEAN]
  /\ plugin = ForkPlugin(StorySchema, options)

\* The plugin is applied to a schema.
Setup ==
  /\ plugin.state = "declared"
  /\ plugin' = Plugin(plugin)
  /\ UNCHANGED <<model, shadowModel, nextVersion, nextActive, pc, call, versDoc,
                 original, delivered, pre, options, flagged, removals>>

SetupFork ==
  /\ plugin.state = "declared"
  /\ plugin' = ForkPlugin(plugin, options)
  /\ UNCHANGED <<model, shadowModel, nextVersion, nextActive, pc, call, versDoc,
                 original, delivered, pre, options, flagged, removals>>

\* SpecSetup: either plugin is applied to a schema that declares _id and any
\* of the paths PathNames, with any two different link field names and any
\* options.
PathNames == {"title", "versionId", "versionOfId", DeleteFlag}

InitSetup ==
  /\ InitStore
  /\ options \in [append_only : BOOLEAN, delete_flag : BOOLEAN]
  /\ \E paths \in SUBSET PathNames :
       \E versionIdPath \in {"versionId", "title"} :
         \E versionOfIdPath \in {"versionOfId", "title"} \ {versionIdPath} :
           plugin = Declared(paths \cup {"_id"}, versionIdPath, versionOfIdPath)

NextSetup ==
  \/ Setup
  \/ SetupFork

SpecSetup == InitSetup /\ [][NextSetup]_vars

\* Mutant: the shadow model is registered at every resolve.
GetShadowModelAnew(p, conn) ==
  [p EXCEPT !.models[conn] = [conn |-> conn, name |-> ShadowName],
            !.registered[conn] = @ + 1,
            !.result = [conn |-> conn, handle |-> [conn |-> conn, name |-> ShadowName],
                        err |-> p.models[conn] # NoModel]]

\* getShadowModel(conn): conn.model(shadowName) returns the model registered
\* on conn under that name and throws when there is none; the catch branch
\* then registers it with conn.model(shadowName, shadowSchema).
GetShadowModel(p, conn) ==
  IF p.models[conn] # NoModel
  THEN [p EXCEPT !.result = [conn |-> conn, handle |-> p.models[conn], err |-> FALSE]]
  ELSE LET mdl == [conn |-> conn, name |-> ShadowName]
       IN [p EXCEPT !.models[conn] = mdl,
                    !.registered[conn] = @ + 1,
                    !.result = [conn |-> conn, handle |-> mdl, err |-> FALSE]]

\* A static method is called on the model of connection conn and resolves
\* the shadow model.
Resolve(conn) ==
  /\ plugin' = GetShadowModel(plugin, conn)
  /\ UNCHANGED <<model, shadowModel, nextVersion, nextActive, pc, call, versDoc,
                 original, delivered, pre, options, flagged, removals>>

\* saveVersion on the model of connection conn: new shadowModel(...).save()
\* writes a record into the collection of the handle it resolved.
WriteThrough(conn, d) ==
  LET q == GetShadowModel(plugin, conn)
      n == Cardinality(UNION {plugin.collections[c] : c \in Conns})
  IN /\ n < MaxIds
     /\ plugin' = [q EXCEPT !.collections[q.result.handle.conn] =
                              @ \cup {[id |-> n + 1, by |-> conn, title |-> d]}]
     /\ UNCHANGED <<model, shadowModel, nextVersion, nextActive, pc, call, versDoc,
                    original, delivered, pre, options, flagged, removals>>

\* SpecResolve: the shadow model is resolved and written through on either
\* connection, in any order.
NextResolve ==
  \/ \E conn \in Conns : Resolve(conn)
  \/ \E conn \in Conns, d \in Data : WriteThrough(conn, d)

SpecResolve == Init /\ [][NextResolve]_vars

\* Ids a caller can pass: the id of every document stored so far (removed
\* since or not), null, or any other value.
UnsavedIds(docs) == {docs[p].id : p \in {q \in Procs : docs[q].isNew}}
VersionArgs == ((1..nextVersion) \ UnsavedIds(versDoc)) \cup {Null}
ActiveArgs == ({0 - i : i \in 1..nextActive} \ UnsavedIds(original)) \cup {Null, StaleActiveId}

\* No operation is in flight.
Quiescent == \A q \in Procs : pc[q] = "idle"

\* A call is made: its arguments are recorded and its first request issued.
Begin(p, c, first) ==
  /\ pc[p] = "idle"
  /\ call' = [call EXCEPT ![p] = c]
  /\ pc' = [pc EXCEPT ![p] = first]
  /\ delivered' = [delivered EXCEPT ![p] = <<>>]
  /\ versDoc' = [versDoc EXCEPT ![p] = NoDoc]
  /\ original' = [original EXCEPT ![p] = NoDoc]
  /\ UNCHANGED <<model, shadowModel, nextVersion, nextActive>>
  /\ UNCHANGED forkVars

\* The callback is called and the operation is over: its local documents
\* go out of scope.
Return(p, err, value) ==
  /\ Callback(p, err, value)
  /\ pc' = [pc EXCEPT ![p] = "idle"]
  /\ versDoc' = [versDoc EXCEPT ![p] = NoDoc]
  /\ original' = [original EXCEPT ![p] = NoDoc]

Finish(p, err, value) == Return(p, err, value) /\ UNCHANGED forkVars

\* The callback issues the next request.
Proceed(p, next, vers, orig) ==
  /\ pc' = [pc EXCEPT ![p] = next]
  /\ versDoc' = [versDoc EXCEPT ![p] = vers]
  /\ original' = [original EXCEPT ![p] = orig]
  /\ UNCHANGED delivered

Continue(p, next, vers, orig) == Proceed(p, next, vers, orig) /\ UNCHANGED forkVars

\* ------------------------------------------------------------- saveVersion
\* `x || null`
OrNull(x) == IF x = Null THEN Null ELSE x

\* Mutant: the ids are compared by value.
StrictEqualsByValue(a, b) == a = b

\* `a === b` on ObjectIds compares object identity.  The left side is a
\* field of the fresh toObject() copy of the Version Record (or null), the
\* right side the _id of the saved Active Document: never the same object.
StrictEquals(a, b) == a = Null /\ b = Null

\* The ids the store can still hand out suffice for the call (a bound of the
\* model: the code has none).
Allocated == nextVersion + nextActive

RoomFor(versionId, versionOfId) ==
  Allocated + (IF versionId \in DOMAIN shadowModel THEN 0 ELSE 1)
            + (IF versionOfId \in DOMAIN model THEN 0 ELSE 1) <= MaxIds

\* saveVersion(dataObj, callback): shadowModel.findById(dataObj.versionId) is issued.
SaveVersionCall(p, data, versionId, versionOfId) ==
  /\ RoomFor(versionId, versionOfId)
  /\ Begin(p, [op |-> "saveVersion", data |-> data, versionId |-> versionId,
               versionOfId |-> versionOfId, id |-> Null], "sv_findVersion")

\* Mutant: the active version's id is passed as versionId.
SaveNewVersionOfActive(p, versionOfId, data) ==
  /\ RoomFor(Null, versionOfId)
  /\ Begin(p, [op |-> "saveNewVersionOf", data |-> data,
               versionId |-> IF versionOfId \in DOMAIN model
                             THEN model[versionOfId].link ELSE Null,
               versionOfId |-> versionOfId, id |-> Null], "sv_findVersion")

\* saveNewVersionOf(versionOfId, data, callback): saveVersion with versionId null.
SaveNewVersionOfCall(p, versionOfId, data) ==
  /\ RoomFor(Null, versionOfId)
  /\ Begin(p, [op |-> "saveNewVersionOf", data |-> data, versionId |-> Null,
               versionOfId |-> versionOfId, id |-> Null], "sv_findVersion")

\* 1) the Version Record is looked up; a new one is created from data, or
\*    data is copied onto the one found; versionOfId is set.
BuildVersion(found, fresh, data, versionOfId) ==
  LET doc == IF found.id = Null THEN NewDoc(fresh, data)
             ELSE SetPath(found, "title", data)
  IN SetPath(doc, "link", OrNull(versionOfId))

SvFindVersion(p) ==
  /\ pc[p] = "sv_findVersion"
  /\ LET found == FindById(shadowModel, call[p].versionId)
     IN /\ found.id = Null => Allocated < MaxIds
        /\ nextVersion' = IF found.id = Null THEN nextVersion + 1 ELSE nextVersion
        /\ Continue(p, "sv_saveVersion",
                    BuildVersion(found, nextVersion + 1, call[p].data, call[p].versionOfId),
                    original[p])
  /\ UNCHANGED <<model, shadowModel, nextActive, call, pre>>

\* Mutant: the Active Document lookup is issued without waiting for the
\* Version Record's save.
SvSaveVersionLater(p) ==
  /\ pc[p] = "sv_saveVersion"
  /\ Continue(p, "sv_findOriginal", versDoc[p], original[p])
  /\ UNCHANGED <<model, shadowModel, nextVersion, nextActive, call, pre>>

\* 2) the Version Record is saved; the Active Document lookup is issued.
SvSaveVersion(p) ==
  /\ pc[p] = "sv_saveVersion"
  /\ shadowModel' = SaveInto(shadowModel, versDoc[p])
  /\ Continue(p, "sv_findOriginal", Saved(versDoc[p]), original[p])
  /\ UNCHANGED <<model, nextVersion, nextActive, call, pre>>

\* 3) the Active Document, or a new one pointing at the saved Version Record.
ResolveOriginal(found, fresh, versSaved) ==
  IF found.id = Null THEN SetPath(NewDoc(fresh, Null), "link", versSaved.id)
  ELSE found

\* Mutant: the ids are compared as objects, equal only for the Active
\* Document just created from the saved Version Record.
IsActiveVersionByIdentity(orig, versSaved) == orig.isNew

\* Mutant: every saved Version Record is taken for the active one.
IsActiveVersionAlways(orig, versSaved) == TRUE

\* 4) the Active Document is updated only when its versionId is the saved
\*    Version Record (compared as strings, that is by value).
IsActiveVersion(orig, versSaved) == orig.link = versSaved.id

\* Mutant: no property is copied.
CopyNothing(doc, vers) == doc

\* 4a) every property of the Version Record except _id and versionOfId.
CopyToActive(doc, vers) == SetPath(doc, "title", vers.title)

SvFindOriginal(p) ==
  /\ pc[p] = "sv_findOriginal"
  /\ LET found == FindById(model, call[p].versionOfId)
         orig == ResolveOriginal(found, 0 - (nextActive + 1), versDoc[p])
     IN /\ found.id = Null => Allocated < MaxIds
        /\ nextActive' = IF found.id = Null THEN nextActive + 1 ELSE nextActive
        /\ IF IsActiveVersion(orig, versDoc[p])
           THEN Continue(p, "sv_saveOriginal", versDoc[p], CopyToActive(orig, versDoc[p]))
           ELSE Finish(p, "null", DocValue("version", versDoc[p]))
  /\ UNCHANGED <<model, shadowModel, nextVersion, call, pre>>

\* Mutant: step 5 is left out, the Version Record keeps the versionOfId it
\* was first saved with.
SvSaveOriginalNoBackfill(p) ==
  /\ pc[p] = "sv_saveOriginal"
  /\ model' = SaveInto(model, original[p])
  /\ Finish(p, "null", DocValue("version", versDoc[p]))
  /\ UNCHANGED <<shadowModel, nextVersion, nextActive, call, pre>>

\* 4b) the Active Document is saved; 5) the Version Record gets the Active
\*     Document's id as versionOfId and its save is issued.
SvSaveOriginal(p) ==
  /\ pc[p] = "sv_saveOriginal"
  /\ model' = SaveInto(model, original[p])
  /\ IF StrictEquals(versDoc[p].link, original[p].id)
     THEN Finish(p, "null", NoValue)
     ELSE Continue(p, "sv_saveAgain", SetPath(versDoc[p], "link", original[p].id),
                   Saved(original[p]))
  /\ UNCHANGED <<shadowModel, nextVersion, nextActive, call, pre>>

SvSaveAgain(p) ==
  /\ pc[p] = "sv_saveAgain"
  /\ shadowModel' = SaveInto(shadowModel, versDoc[p])
  /\ Finish(p, "null", DocValue("version", versDoc[p]))
  /\ UNCHANGED <<model, nextVersion, nextActive, call, pre>>

\* ----------------------------------------------------------- deleteVersion
\* Mutant: the versions of the same Active Document go with it.
RemoveLineageFrom(coll, id) ==
  [i \in {j \in DOMAIN coll : j # id /\ (id \in DOMAIN coll => coll[j].link # coll[id].link)}
     |-> coll[i]]

\* `doc.remove()`.
RemoveFrom(coll, id) == [i \in DOMAIN coll \ {id} |-> coll[i]]

\* Mutant: the filter names the back-reference path, which no Active
\* Document has, so nothing is found.
FindOneByWrongPath(coll, id) == NoDoc

\* `model.findOne({versionId: id})`: an Active Document with that versionId, or null.
FindOneByVersionId(coll, id) ==
  IF \E a \in DOMAIN coll : coll[a].link = id
  THEN LET a == CHOOSE a \in DOMAIN coll : coll[a].link = id IN Hydrate(a, coll[a])
  ELSE NoDoc

\* deleteVersion(id, callback): model.findOne({versionId: id}) is issued.
DeleteVersionCall(p, id) ==
  Begin(p, [op |-> "deleteVersion", data |-> Null, versionId |-> Null,
            versionOfId |-> Null, id |-> id], "dv_findActive")

\* 1) is the Version Record the active one of some Active Document?
\* 2b) found: not safe to delete.  2a) else the Version Record is looked up.
DvFindActive(p) ==
  /\ pc[p] = "dv_findActive"
  /\ LET result == FindOneByVersionId(model, call[p].id)
     IN IF result.id # Null
        THEN Finish(p, "null", StatusValue(FALSE))
        ELSE Continue(p, "dv_findVersion", versDoc[p], original[p])
  /\ UNCHANGED <<model, shadowModel, nextVersion, nextActive, call, pre>>

DvFindVersion(p) ==
  /\ pc[p] = "dv_findVersion"
  /\ LET version == FindById(shadowModel, call[p].id)
     IN IF version.id = Null
        THEN Finish(p, "null", StatusValue(FALSE))
        ELSE Continue(p, "dv_remove", version, original[p])
  /\ UNCHANGED <<model, shadowModel, nextVersion, nextActive, call, pre>>

DvRemove(p) ==
  /\ pc[p] = "dv_remove"
  /\ shadowModel' = RemoveFrom(shadowModel, versDoc[p].id)
  /\ Finish(p, "null", StatusValue(TRUE))
  /\ UNCHANGED <<model, nextVersion, nextActive, call, pre>>

\* --------------------------------------------------------- activateVersion
\* activateVersion(id, callback): shadowModel.findById(id) is issued.
ActivateVersionCall(p, id) ==
  Begin(p, [op |-> "activateVersion", data |-> Null, versionId |-> Null,
            versionOfId |-> Null, id |-> id], "av_findVersion")

\* 1) the Version Record; absent: callback({success: false}).
AvFindVersion(p) ==
  /\ pc[p] = "av_findVersion"
  /\ LET result == FindById(shadowModel, call[p].id)
     IN IF result.id = Null
        THEN Finish(p, "failure", NoValue)
        ELSE Continue(p, "av_findActive", result, original[p])
  /\ UNCHANGED <<model, shadowModel, nextVersion, nextActive, call, pre>>

\* Mutant: the version pointer is left as it was.
ActivateFieldsOnly(active, result, id) == CopyToActive(active, result)

\* Mutant: only the version pointer is set.
ActivateLinkOnly(active, result, id) == SetPath(active, "link", id)

\* 3) every property of the Version Record except _id and versionOfId is
\*    copied; 4) the version pointer is set to the id being activated.
Activate(active, result, id) == SetPath(CopyToActive(active, result), "link", id)

\* Mutant: a Version Record without Active Document is reported as a result.
AvFindActiveAsResult(p) ==
  /\ pc[p] = "av_findActive"
  /\ LET active == FindById(model, versDoc[p].link)
     IN IF active.id = Null
        THEN Finish(p, "null", StatusValue(FALSE))
        ELSE Continue(p, "av_save", versDoc[p], Activate(active, versDoc[p], call[p].id))
  /\ UNCHANGED <<model, shadowModel, nextVersion, nextActive, call, pre>>

\* 2) the Active Document of the Version Record; absent: callback({success: false}).
AvFindActive(p) ==
  /\ pc[p] = "av_findActive"
  /\ LET active == FindById(model, versDoc[p].link)
     IN IF active.id = Null
        THEN Finish(p, "failure", NoValue)
        ELSE Continue(p, "av_save", versDoc[p], Activate(active, versDoc[p], call[p].id))
  /\ UNCHANGED <<model, shadowModel, nextVersion, nextActive, call, pre>>

\* the Active Document is saved; callback(err, activeSaved).
AvSave(p) ==
  /\ pc[p] = "av_save"
  /\ model' = SaveInto(model, original[p])
  /\ Finish(p, "null", DocValue("active", original[p]))
  /\ UNCHANGED <<shadowModel, nextVersion, nextActive, call, pre>>

\* ---------------------------------------------------------- read operations
\* Mutant: the filter is left empty.
FindAll(coll, a) ==
  {[id |-> v, title |-> coll[v].title, link |-> coll[v].link] : v \in DOMAIN coll}

\* `shadowModel.find({versionOfId: a})`: the Version Records of Active Document a.
Find(coll, a) ==
  {[id |-> v, title |-> coll[v].title, link |-> coll[v].link] :
     v \in {w \in DOMAIN coll : coll[w].link = a}}

\* findVersions(id, fields, options, callback): model.findById(id) is issued.
FindVersionsCall(p, id) ==
  Begin(p, [op |-> "findVersions", data |-> Null, versionId |-> Null,
            versionOfId |-> Null, id |-> id], "fv_findActive")

\* activeDoc === null: callback(err, {activeId: null, docs: []}); else
\* activeId is the document's versionId and its versions are looked up.
FvFindActive(p) ==
  /\ pc[p] = "fv_findActive"
  /\ LET activeDoc == FindById(model, call[p].id)
     IN IF activeDoc.id = Null
        THEN Finish(p, "null", VersionsValue(Null, {}))
        ELSE Continue(p, "fv_find", versDoc[p], activeDoc)
  /\ UNCHANGED <<model, shadowModel, nextVersion, nextActive, call, pre>>

FvFind(p) ==
  /\ pc[p] = "fv_find"
  /\ Finish(p, "null", VersionsValue(original[p].link, Find(shadowModel, original[p].id)))
  /\ UNCHANGED <<model, shadowModel, nextVersion, nextActive, call, pre>>

\* (instance).findVersions(callback), on a document whose _id is id.
InstanceFindVersionsCall(p, id) ==
  Begin(p, [op |-> "instanceFindVersions", data |-> Null, versionId |-> Null,
            versionOfId |-> Null, id |-> id], "ifv_find")

IfvFind(p) ==
  /\ pc[p] = "ifv_find"
  /\ Finish(p, "null", VersionsValue(Null, Find(shadowModel, call[p].id)))
  /\ UNCHANGED <<model, shadowModel, nextVersion, nextActive, call, pre>>

\* findVersionById(id, fields, options, callback): shadowModel.findById with
\* the caller's callback, which gets the Version Record or null.
FindVersionByIdCall(p, id) ==
  Begin(p, [op |-> "findVersionById", data |-> Null, versionId |-> Null,
            versionOfId |-> Null, id |-> id], "fb_find")

\* Mutant: the Version Record is taken out of the collection as it is read.
FbFindAndRemove(p) ==
  /\ pc[p] = "fb_find"
  /\ LET doc == FindById(shadowModel, call[p].id)
     IN Finish(p, "null", IF doc.id = Null THEN NoValue ELSE DocValue("version", doc))
  /\ shadowModel' = RemoveFrom(shadowModel, call[p].id)
  /\ UNCHANGED <<model, nextVersion, nextActive, call, pre>>

FbFind(p) ==
  /\ pc[p] = "fb_find"
  /\ LET doc == FindById(shadowModel, call[p].id)
     IN Finish(p, "null", IF doc.id = Null THEN NoValue ELSE DocValue("version", doc))
  /\ UNCHANGED <<model, shadowModel, nextVersion, nextActive, call, pre>>

ReadCalls(p) ==
  \/ \E a \in ActiveArgs : FindVersionsCall(p, a)
  \/ \E a \in ActiveArgs : InstanceFindVersionsCall(p, a)
  \/ \E v \in VersionArgs : FindVersionByIdCall(p, v)

ReadStep(p) ==
  \/ FvFindActive(p)
  \/ FvFind(p)
  \/ IfvFind(p)
  \/ FbFind(p)

\* ------------------------------------- upsertVersion (src/unnamed/part_000)
\* A version token no Version Record ever has.
StaleVersionId == MaxIds + 1
TokenArgs == VersionArgs \cup {StaleVersionId}

\* Mutant: the call is refused after its shadow has been saved.
RefuseAfterSave(p, c, err) ==
  /\ pc[p] = "idle"
  /\ call' = [call EXCEPT ![p] = c]
  /\ delivered' = [delivered EXCEPT ![p] = <<[err |-> err, value |-> NoValue]>>]
  /\ shadowModel' = SaveInto(shadowModel,
                             SetPath(NewDoc(nextVersion + 1, c.data), "link", c.versionOfId))
  /\ nextVersion' = nextVersion + 1
  /\ UNCHANGED <<pc, versDoc, original, model, nextActive>>
  /\ UNCHANGED forkVars

\* The call is refused before any request is issued: callback(err).
Refuse(p, c, err) ==
  /\ pc[p] = "idle"
  /\ call' = [call EXCEPT ![p] = c]
  /\ delivered' = [delivered EXCEPT ![p] = <<[err |-> err, value |-> NoValue]>>]
  /\ UNCHANGED <<pc, versDoc, original, model, shadowModel, nextVersion, nextActive>>
  /\ UNCHANGED forkVars

\* create_shadow: `new shadowModel(input)` with versionOfId = originalObj._id.
CreateShadow(fresh, data, id) == SetPath(NewDoc(fresh, data), "link", id)

\* upsertVersion(dataObj, query, callback) with dataObj = {_id: id,
\* versionId, title: data}; query is none (null) or the uniqueness query
\* {title: query}.  Without _id: 1) a new document, 2) its shadow, whose
\* save is issued.  With _id: refused without version token unless
\* append_only, else 1) the shadow, whose save is issued.
UpsertVersionCall(p, data, id, versionId, query) ==
  LET c == [op |-> "upsertVersion", data |-> data, versionId |-> versionId,
            versionOfId |-> id, id |-> query]
      fresh == 0 - (nextActive + 1)
  IN IF id = Null
     THEN /\ pc[p] = "idle"
          /\ Allocated + 2 <= MaxIds
          /\ call' = [call EXCEPT ![p] = c]
          /\ delivered' = [delivered EXCEPT ![p] = <<>>]
          /\ nextActive' = nextActive + 1
          /\ nextVersion' = nextVersion + 1
          /\ pc' = [pc EXCEPT ![p] = "uv_saveShadow"]
          /\ versDoc' = [versDoc EXCEPT ![p] = CreateShadow(nextVersion + 1, data, fresh)]
          /\ original' = [original EXCEPT ![p] = NewDoc(fresh, data)]
          /\ UNCHANGED <<model, shadowModel>>
          /\ UNCHANGED forkVars
     ELSE IF ~options.append_only /\ versionId = Null
     THEN Refuse(p, c, "refused")
     ELSE /\ pc[p] = "idle"
          /\ Allocated + 1 <= MaxIds
          /\ call' = [call EXCEPT ![p] = c]
          /\ delivered' = [delivered EXCEPT ![p] = <<>>]
          /\ nextVersion' = nextVersion + 1
          /\ pc' = [pc EXCEPT ![p] = "uv_saveShadow"]
          /\ versDoc' = [versDoc EXCEPT ![p] = CreateShadow(nextVersion + 1, data, id)]
          /\ original' = [original EXCEPT ![p] = NoDoc]
          /\ UNCHANGED <<model, shadowModel, nextActive>>
          /\ UNCHANGED forkVars

\* versDoc.save in create_shadow; then 3) the new document gets the shadow's
\* id as versionId and the upsert is issued, or 2) the update is issued.
UvSaveShadow(p) ==
  /\ pc[p] = "uv_saveShadow"
  /\ shadowModel' = SaveInto(shadowModel, versDoc[p])
  /\ IF call[p].versionOfId = Null
     THEN Proceed(p, "uv_upsert", Saved(versDoc[p]),
                  SetPath(original[p], "link", versDoc[p].id))
     ELSE Proceed(p, "uv_update", Saved(versDoc[p]), original[p])
  /\ UNCHANGED <<model, nextVersion, nextActive, call, pre>>
  /\ UNCHANGED forkVars

\* The documents `query || {_id: original._id}` matches.
Matching(coll, query, id) ==
  IF query = Null THEN {a \in DOMAIN coll : a = id}
  ELSE {a \in DOMAIN coll : coll[a].title = query}

\* Mutant: the speculative Version Record is left in the collection.
NoRemove(id) == removals

\* `versSaved.remove()` without callback: the removal is under way.
Remove(id) == removals \cup {id}

\* model.findOneAndUpdate(query, {$setOnInsert: original}, {upsert: true,
\* new: false}): one store operation.  No document matched: the new
\* document is inserted, callback(undefined, original).  A document
\* matched: nothing is written, the shadow is removed again,
\* callback(undefined, doc).
UvUpsert(p) ==
  /\ pc[p] = "uv_upsert"
  /\ LET found == Matching(model, call[p].id, original[p].id)
     IN IF found = {}
        THEN /\ model' = SaveInto(model, original[p])
             /\ removals' = removals
             /\ Return(p, "null", DocValue("active", original[p]))
        ELSE /\ model' = model
             /\ removals' = Remove(versDoc[p].id)
             /\ \E a \in found : Return(p, "null", DocValue("active", Hydrate(a, model[a])))
  /\ UNCHANGED <<shadowModel, nextVersion, nextActive, call, pre, options, plugin, flagged>>

\* Mutant: the version token is a condition of the update under append_only
\* too.
TokenMatchesStrict(coll, id, versionId) ==
  /\ id \in DOMAIN coll
  /\ coll[id].link = versionId

\* Mutant: the version token only has to name a stored Version Record.
TokenMatchesStored(coll, id, versionId) ==
  /\ id \in DOMAIN coll
  /\ versionId \in DOMAIN shadowModel

\* Mutant: the version token is not made a condition of the update.
TokenMatchesAlways(coll, id, versionId) == id \in DOMAIN coll

\* query = {_id: dataObj._id}, and versionId: dataObj.versionId unless append_only.
TokenMatches(coll, id, versionId) ==
  /\ id \in DOMAIN coll
  /\ options.append_only \/ coll[id].link = versionId

\* model.findOneAndUpdate(query, dataObj): one store operation.  A document
\* matched: it gets dataObj's fields and the shadow's id as versionId,
\* callback(undefined, origSaved).  None matched: the shadow is removed
\* again, callback(new Error(...)).
UvUpdate(p) ==
  /\ pc[p] = "uv_update"
  /\ LET a == call[p].versionOfId
         updated == [title |-> call[p].data, link |-> versDoc[p].id]
     IN IF TokenMatches(model, a, call[p].versionId)
        THEN /\ model' = [model EXCEPT ![a] = updated]
             /\ removals' = removals
             /\ Return(p, "null", DocValue("active", Hydrate(a, updated)))
        ELSE /\ model' = model
             /\ removals' = Remove(versDoc[p].id)
             /\ Return(p, "conflict", NoValue)
  /\ UNCHANGED <<shadowModel, nextVersion, nextActive, call, pre, options, plugin, flagged>>

\* Mutant: the shadow is left in place when findOneAndUpdate fails.
UvFailsNoUndo(p) ==
  /\ pc[p] \in {"uv_saveShadow", "uv_upsert", "uv_update"}
  /\ Return(p, "error", NoValue)
  /\ UNCHANGED <<model, shadowModel, nextVersion, nextActive, call, pre, options, plugin,
                 flagged, removals>>

\* The store answers with an error.  create_shadow: callback(err).
\* findOneAndUpdate: versSaved.remove(); callback(err).
UvFails(p) ==
  /\ pc[p] \in {"uv_saveShadow", "uv_upsert", "uv_update"}
  /\ removals' = IF pc[p] = "uv_saveShadow" THEN removals ELSE Remove(versDoc[p].id)
  /\ Return(p, "error", NoValue)
  /\ UNCHANGED <<model, shadowModel, nextVersion, nextActive, call, pre, options, plugin, flagged>>

\* The store executes a removal that is under way.
RemovalStep ==
  \E v \in removals :
    /\ shadowModel' = RemoveFrom(shadowModel, v)
    /\ removals' = removals \ {v}
    /\ flagged' = flagged \ {v}
    /\ UNCHANGED <<model, nextVersion, nextActive, pc, call, versDoc, original,
                   delivered, pre, options, plugin>>

\* The store answers a removal that is under way with an error:
\* `versSaved.remove()` has no callback, nobody is told.
RemovalFails(v) ==
  /\ v \in removals
  /\ removals' = removals \ {v}
  /\ UNCHANGED <<model, shadowModel, nextVersion, nextActive, pc, call, versDoc,
                 original, delivered, pre, options, plugin, flagged>>

UpsertCalls(p) ==
  \E d \in Data, a \in ActiveArgs, v \in TokenArgs :
    \E q \in {Null, d} : UpsertVersionCall(p, d, a, v, q)

\* ------------------------------------ deleteOriginal (src/unnamed/part_000)
\* deleteOriginal(queryObj, dataObj, callback) with queryObj = {_id: id,
\* versionId} (null: not in the query) and dataObj = {title: data} or none.
\* Refused without version token unless append_only; else 1) model.find is
\* issued.
DeleteOriginalCall(p, id, versionId, data) ==
  LET c == [op |-> "deleteOriginal", data |-> data, versionId |-> versionId,
            versionOfId |-> id, id |-> Null]
  IN IF ~options.append_only /\ versionId = Null
     THEN Refuse(p, c, "refused")
     ELSE Begin(p, c, "do_find")

\* Mutant: the version token is not part of the query.
FindMatchingById(coll, id, versionId) == {a \in DOMAIN coll : id = Null \/ a = id}

\* model.find(queryObj)
FindMatching(coll, id, versionId) ==
  {a \in DOMAIN coll : /\ id = Null \/ a = id
                       /\ versionId = Null \/ coll[a].link = versionId}

\* Mutant: versionOfId is not set.
OrigObjUnlinked(fresh, orig, data) ==
  NewDoc(fresh, IF data = Null THEN orig.title ELSE data)

\* origObj: the original's fields with versionOfId = its _id, without _id
\* and versionId, overridden by dataObj's.
OrigObj(fresh, orig, data) ==
  CreateShadow(fresh, IF data = Null THEN orig.title ELSE data, orig.id)

\* Mutant: the removal of the first document found is issued, whatever the
\* options and however many were found.
DoFindRemoving(p) ==
  /\ pc[p] = "do_find"
  /\ LET origs == FindMatching(model, call[p].versionOfId, call[p].versionId)
     IN IF origs = {}
        THEN Finish(p, "conflict", NoValue)
        ELSE LET a == CHOOSE a \in origs : TRUE
             IN Continue(p, "do_remove", versDoc[p], Hydrate(a, model[a]))
  /\ UNCHANGED <<model, shadowModel, nextVersion, nextActive, call, pre>>

\* 1) none or several found: callback(new Error(...)).  2) append_only: a
\* new version is created and its save issued; else with delete_flag the
\* flag update of the version queryObj names is issued; else
\* callback(new Error('Do not know what to do ...')).
DoFind(p) ==
  /\ pc[p] = "do_find"
  /\ LET origs == FindMatching(model, call[p].versionOfId, call[p].versionId)
     IN IF Cardinality(origs) # 1
        THEN /\ Finish(p, IF origs = {} THEN "conflict" ELSE "several", NoValue)
             /\ UNCHANGED nextVersion
        ELSE LET a == CHOOSE a \in origs : TRUE
                 origSaved == Hydrate(a, model[a])
             IN IF options.append_only
                THEN /\ Allocated < MaxIds
                     /\ nextVersion' = nextVersion + 1
                     /\ Continue(p, "do_saveShadow",
                                 OrigObj(nextVersion + 1, origSaved, call[p].data), origSaved)
                ELSE IF options.delete_flag
                THEN /\ Continue(p, "do_flag", versDoc[p], origSaved)
                     /\ UNCHANGED nextVersion
                ELSE /\ Finish(p, "unsupported", NoValue)
                     /\ UNCHANGED nextVersion
  /\ UNCHANGED <<model, shadowModel, nextActive, call, pre>>

\* versDoc.save (append_only), with the delete flag if there is one;
\* 3) the removal of the original is issued.
DoSaveShadow(p) ==
  /\ pc[p] = "do_saveShadow"
  /\ shadowModel' = SaveInto(shadowModel, versDoc[p])
  /\ flagged' = IF options.delete_flag THEN flagged \cup {versDoc[p].id} ELSE flagged
  /\ Proceed(p, "do_remove", Saved(versDoc[p]), original[p])
  /\ UNCHANGED <<model, nextVersion, nextActive, call, pre, options, plugin, removals>>

\* Mutant: the update sets no flag.
DoFlagUnset(p) ==
  /\ pc[p] = "do_flag"
  /\ IF call[p].versionId \in DOMAIN shadowModel
     THEN Proceed(p, "do_remove", versDoc[p], original[p])
     ELSE Return(p, "inconsistent", NoValue)
  /\ UNCHANGED <<model, shadowModel, nextVersion, nextActive, call, pre, options, plugin,
                 removals, flagged>>

\* shadowModel.findOneAndUpdate({_id: queryObj.versionId}, {delete_flag: true});
\* none found: callback(new Error(...)); else 3) the removal is issued.
DoFlag(p) ==
  /\ pc[p] = "do_flag"
  /\ IF call[p].versionId \in DOMAIN shadowModel
     THEN /\ flagged' = flagged \cup {call[p].versionId}
          /\ Proceed(p, "do_remove", versDoc[p], original[p])
     ELSE /\ flagged' = flagged
          /\ Return(p, "inconsistent", NoValue)
  /\ UNCHANGED <<model, shadowModel, nextVersion, nextActive, call, pre, options, plugin, removals>>

\* model.remove({_id: origSaved._id}); callback().
DoRemove(p) ==
  /\ pc[p] = "do_remove"
  /\ model' = RemoveFrom(model, original[p].id)
  /\ Finish(p, "null", NoValue)
  /\ UNCHANGED <<shadowModel, nextVersion, nextActive, call, pre>>

\* An exception leaves the callback of a store request: the operation is
\* over and the caller's callback has not been called.
Throw(p) ==
  /\ pc' = [pc EXCEPT ![p] = "idle"]
  /\ versDoc' = [versDoc EXCEPT ![p] = NoDoc]
  /\ original' = [original EXCEPT ![p] = NoDoc]
  /\ UNCHANGED delivered

\* The store answers with an error.  find, save, flag update: callback(err).
\* remove: `versSaved.remove(); return callback(err)`, where versSaved is
\* the saved version under append_only and an undeclared name otherwise,
\* whose evaluation throws a ReferenceError.
DoFails(p) ==
  /\ pc[p] \in {"do_find", "do_saveShadow", "do_flag", "do_remove"}
  /\ IF pc[p] # "do_remove"
     THEN Return(p, "error", NoValue) /\ UNCHANGED removals
     ELSE IF options.append_only
     THEN Return(p, "error", NoValue) /\ removals' = Remove(versDoc[p].id)
     ELSE Throw(p) /\ UNCHANGED removals
  /\ UNCHANGED <<model, shadowModel, nextVersion, nextActive, call, pre, options, plugin, flagged>>

DeleteOriginalCalls(p) ==
  \E a \in ActiveArgs, v \in TokenArgs, d \in Data \cup {Null} :
    DeleteOriginalCall(p, a, v, d)

\* The store executes the request caller p waits for and p's callback runs.
ForkStep(p) ==
  \/ UvSaveShadow(p)
  \/ UvUpsert(p)
  \/ UvUpdate(p)
  \/ DoFind(p)
  \/ DoSaveShadow(p)
  \/ DoFlag(p)
  \/ DoRemove(p)

\* ------------------- save with hookWanted (src/unnamed/part_000, middleware)
\* doc.save(callback) on a document of the model: a new one, `new
\* model({title: data})`, or one with the _id id whose copy has the versionId
\* versionId and is given the title data.  schema.pre('save') runs: under
\* append_only 2) the shadow document is created in memory, the document
\* gets its id as versionId and the save goes on; else 1) model.findById is
\* issued.
HookSaveCall(p, data, id, versionId) ==
  LET c == [op |-> "save", data |-> data, versionId |-> versionId,
            versionOfId |-> id, id |-> Null]
      origDoc == IF id = Null THEN NewDoc(0 - (nextActive + 1), data)
                 ELSE SetPath(Hydrate(id, [title |-> model[id].title, link |-> versionId]),
                              "title", data)
  IN /\ pc[p] = "idle"
     /\ Allocated + (IF id = Null THEN 2 ELSE 1) <= MaxIds
     /\ call' = [call EXCEPT ![p] = c]
     /\ delivered' = [delivered EXCEPT ![p] = <<>>]
     /\ nextActive' = IF id = Null THEN nextActive + 1 ELSE nextActive
     /\ IF options.append_only
        THEN /\ nextVersion' = nextVersion + 1
             /\ pc' = [pc EXCEPT ![p] = "hs_save"]
             /\ versDoc' = [versDoc EXCEPT ![p] =
                              CreateShadow(nextVersion + 1, origDoc.title, origDoc.id)]
             /\ original' = [original EXCEPT ![p] = SetPath(origDoc, "link", nextVersion + 1)]
        ELSE /\ nextVersion' = nextVersion
             /\ pc' = [pc EXCEPT ![p] = "hs_check"]
             /\ versDoc' = [versDoc EXCEPT ![p] = NoDoc]
             /\ original' = [original EXCEPT ![p] = origDoc]
     /\ UNCHANGED <<model, shadowModel>>
     /\ UNCHANGED forkVars

\* 1) model.findById(this._id): a stored document whose versionId is not the
\* copy's: next(new Error(...)), the save fails.  Else 2) the shadow
\* document is created in memory, the document gets its id as versionId and
\* the save goes on.
HsCheck(p) ==
  /\ pc[p] = "hs_check"
  /\ LET origDoc == original[p]
         origSaved == FindById(model, origDoc.id)
     IN IF origSaved.id # Null /\ (origDoc.link = Null \/ origDoc.link # origSaved.link)
        THEN Finish(p, "conflict", NoValue) /\ UNCHANGED nextVersion
        ELSE /\ nextVersion' = nextVersion + 1
             /\ Continue(p, "hs_save",
                         CreateShadow(nextVersion + 1, origDoc.title, origDoc.id),
                         SetPath(origDoc, "link", nextVersion + 1))
  /\ UNCHANGED <<model, shadowModel, nextActive, call, pre>>

\* The document is saved; schema.post('save') issues shadowDoc.save() and
\* the caller has callback(null, doc).
HsSave(p) ==
  /\ pc[p] = "hs_save"
  /\ model' = SaveInto(model, original[p])
  /\ Callback(p, "null", DocValue("active", original[p]))
  /\ pc' = [pc EXCEPT ![p] = "hs_post"]
  /\ original' = [original EXCEPT ![p] = Saved(original[p])]
  /\ UNCHANGED <<shadowModel, nextVersion, nextActive, call, pre, versDoc>>
  /\ UNCHANGED forkVars

\* 3) shadowDoc.save: the shadow document is stored.
HsSaveShadow(p) ==
  /\ pc[p] = "hs_post"
  /\ shadowModel' = SaveInto(shadowModel, versDoc[p])
  /\ Proceed(p, "idle", NoDoc, NoDoc)
  /\ UNCHANGED <<model, nextVersion, nextActive, call, pre>>
  /\ UNCHANGED forkVars

\* shadowDoc.save fails: console.error(...), nobody is told.
HsShadowFails(p) ==
  /\ pc[p] = "hs_post"
  /\ Proceed(p, "idle", NoDoc, NoDoc)
  /\ UNCHANGED <<model, shadowModel, nextVersion, nextActive, call, pre>>
  /\ UNCHANGED forkVars

\* The store answers findById or the document's save with an error:
\* callback(err).
HsFails(p) ==
  /\ pc[p] \in {"hs_check", "hs_save"}
  /\ Finish(p, "error", NoValue)
  /\ UNCHANGED <<model, shadowModel, nextVersion, nextActive, call, pre>>

\* ---------------------------------------------------------- specifications
\* The calls a caller can make.
SaveCalls(p) ==
  \/ \E d \in Data, v \in VersionArgs, a \in ActiveArgs : SaveVersionCall(p, d, v, a)
  \/ \E d \in Data, a \in ActiveArgs : SaveNewVersionOfCall(p, a, d)

DeleteCalls(p) == \E v \in VersionArgs : DeleteVersionCall(p, v)

ActivateCalls(p) == \E v \in VersionArgs : ActivateVersionCall(p, v)

\* The store executes the request caller p waits for and p's callback runs.
Step(p) ==
  \/ SvFindVersion(p)
  \/ SvSaveVersion(p)
  \/ SvFindOriginal(p)
  \/ SvSaveOriginal(p)
  \/ SvSaveAgain(p)
  \/ DvFindActive(p)
  \/ DvFindVersion(p)
  \/ DvRemove(p)
  \/ AvFindVersion(p)
  \/ AvFindActive(p)
  \/ AvSave(p)

\* Mutant: on an error the Version Records are put back as the call found
\* them.
StoreFailsUndo(p) ==
  /\ pc[p] # "idle"
  /\ shadowModel' = pre[p].shadowModel
  /\ Finish(p, "error", NoValue)
  /\ UNCHANGED <<model, nextVersion, nextActive, call, pre>>

\* The store answers the request caller p waits for with an error: nothing
\* is read or written and the callback of the round-trip hands the error to
\* the caller (`if (err) return callback(err)`, `callback(err, activeSaved)`).
StoreFails(p) ==
  /\ pc[p] # "idle"
  /\ Finish(p, "error", NoValue)
  /\ UNCHANGED <<model, shadowModel, nextVersion, nextActive, call, pre>>

\* The caller's previous call.  deleteVersion, activateVersion: its id
\* argument, whether it delivered {success: true} (deleteVersion) or the
\* saved Active Document (activateVersion), and the versionId the activated
\* document had before.  saveVersion: the id of the Version Record it
\* delivered, its versionId argument and its data.  findVersionById: its id
\* argument, whether it delivered without error, and the versionOfId and
\* the fields of the Version Record delivered (null for none).
Previous(p) ==
  LET c == call[p]
      m == pre[p].model
      s == pre[p].shadowModel
      value == IF delivered[p] = <<>> THEN NoValue ELSE delivered[p][1].value
  IN IF c.op = "deleteVersion"
     THEN [op |-> c.op, id |-> c.id, ok |-> value.success, was |-> Null, data |-> Null]
     ELSE IF c.op = "activateVersion"
     THEN [op |-> c.op, id |-> c.id, ok |-> value.kind = "active",
           was |-> IF value.kind = "active" THEN m[s[c.id].link].link ELSE Null,
           data |-> Null]
     ELSE IF c.op = "saveVersion"
     THEN [op |-> c.op, id |-> value.id, ok |-> value.kind = "version",
           was |-> c.versionId, data |-> c.data]
     ELSE IF c.op = "findVersionById"
     THEN [op |-> c.op, id |-> c.id, ok |-> delivered[p][1].err = "null",
           was |-> value.link, data |-> value.title]
     ELSE NoPrev

\* Both collections, the removals under way and the delete flags as the call
\* finds them, kept to state what the call did.
Snapshot(p) ==
  pre' = [pre EXCEPT ![p] =
            [model |-> model, shadowModel |-> shadowModel, removals |-> removals,
             flagged |-> flagged,
             prev |-> NoPrev]]

\* The same, with the call made before it.
SnapshotAfter(p) ==
  pre' = [pre EXCEPT ![p] =
            [model |-> model, shadowModel |-> shadowModel, removals |-> removals,
             flagged |-> flagged,
             prev |-> Previous(p)]]

\* The same, with the call made before it if that was a findVersionById.
SnapshotAfterRead(p) ==
  pre' = [pre EXCEPT ![p] =
            [model |-> model, shadowModel |-> shadowModel, removals |-> removals,
             flagged |-> flagged,
             prev |-> IF call[p].op = "findVersionById" THEN Previous(p) ELSE NoPrev]]

\* Spec: one caller makes the calls, one at a time.
Caller == CHOOSE p \in Procs : \A q \in Procs : p <= q

Next ==
  \/ SaveCalls(Caller) /\ Snapshot(Caller)
  \/ DeleteCalls(Caller) /\ Snapshot(Caller)
  \/ ActivateCalls(Caller) /\ Snapshot(Caller)
  \/ Step(Caller)

Spec == Init /\ [][Next]_vars

\* SpecHistory: as Spec, and each call is recorded together with the call
\* made before it.
NextHistory ==
  \/ SaveCalls(Caller) /\ SnapshotAfter(Caller)
  \/ DeleteCalls(Caller) /\ SnapshotAfter(Caller)
  \/ ActivateCalls(Caller) /\ SnapshotAfter(Caller)
  \/ Step(Caller)

SpecHistory == Init /\ [][NextHistory]_vars

\* The documents the call just made may create are within bound n.
RoomWithin(n, c) ==
  Allocated + (IF c.versionId \in DOMAIN shadowModel THEN 0 ELSE 1)
            + (IF c.versionOfId \in DOMAIN model THEN 0 ELSE 1) <= n

\* SpecFail: as Spec, and any request may be answered with an error.
NextFail ==
  \/ SaveCalls(Caller) /\ Snapshot(Caller) /\ RoomWithin(MaxIdsFail, call'[Caller])
  \/ DeleteCalls(Caller) /\ Snapshot(Caller)
  \/ ActivateCalls(Caller) /\ Snapshot(Caller)
  \/ Step(Caller)
  \/ StoreFails(Caller)

SpecFail == Init /\ [][NextFail]_vars

\* SpecRead: as Spec, with the read operations.
NextRead ==
  \/ SaveCalls(Caller) /\ Snapshot(Caller)
  \/ DeleteCalls(Caller) /\ Snapshot(Caller)
  \/ ActivateCalls(Caller) /\ Snapshot(Caller)
  \/ ReadCalls(Caller) /\ SnapshotAfterRead(Caller)
  \/ Step(Caller)
  \/ ReadStep(Caller)

SpecRead == Init /\ [][NextRead]_vars

\* SpecFork: upsertVersion and deleteOriginal called one at a time, with any
\* plugin options; any request may be answered with an error.
NextFork ==
  \/ UpsertCalls(Caller) /\ Snapshot(Caller) /\ nextVersion' + nextActive' <= MaxIdsFail
  \/ DeleteOriginalCalls(Caller) /\ Snapshot(Caller) /\ Allocated < MaxIdsFail
  \/ ForkStep(Caller)
  \/ UvFails(Caller)
  \/ DoFails(Caller)
  \/ RemovalStep

SpecFork == InitFork /\ [][NextFork]_vars

\* SpecSaveRace: two callers save versions; the store executes their
\* requests in any order.
SaveStep(p) ==
  \/ SvFindVersion(p)
  \/ SvSaveVersion(p)
  \/ SvFindOriginal(p)
  \/ SvSaveOriginal(p)
  \/ SvSaveAgain(p)

NextSaveRace ==
  \/ \E p \in Procs :
       SaveCalls(p) /\ RoomWithin(MaxIdsRace, call'[p]) /\ UNCHANGED pre
  \/ \E p \in Procs : SaveStep(p)

SpecSaveRace == Init /\ [][NextSaveRace]_vars

\* SpecActivateRace: while the first caller saves versions, another caller
\* activates versions; the store executes their requests in any order.
ActivateStep(p) ==
  \/ AvFindVersion(p)
  \/ AvFindActive(p)
  \/ AvSave(p)

Activator == CHOOSE p \in Procs : p # Caller

NextActivateRace ==
  \/ SaveCalls(Caller) /\ RoomWithin(MaxIdsRace, call'[Caller]) /\ UNCHANGED pre
  \/ ActivateCalls(Activator) /\ UNCHANGED pre
  \/ SaveStep(Caller)
  \/ ActivateStep(Activator)

SpecActivateRace == Init /\ [][NextActivateRace]_vars

\* SpecUpsertRace: two callers call upsertVersion for new documents, with or
\* without uniqueness query; the store executes their requests and the
\* removals under way in any order.
NewUpsertCalls(p) ==
  \E d \in Data : \E q \in {Null, d} : UpsertVersionCall(p, d, Null, Null, q)

NextUpsertRace ==
  \/ \E p \in Procs : NewUpsertCalls(p) /\ Snapshot(p)
  \/ \E p \in Procs : UvSaveShadow(p)
  \/ \E p \in Procs : UvUpsert(p)
  \/ RemovalStep

SpecUpsertRace == Init /\ [][NextUpsertRace]_vars

\* SpecUpdateRace: upsertVersion has created one document; two callers call
\* upsertVersion with its _id and some version token, without append_only
\* and with or without delete flag; the store executes their requests and
\* the removals under way in any order.
InitUpdateRace ==
  /\ \E d \in Data :
       /\ model = (0 - 1 :> [title |-> d, link |-> 1])
       /\ shadowModel = (1 :> [title |-> d, link |-> 0 - 1])
  /\ nextVersion = 1
  /\ nextActive = 1
  /\ pc = [p \in Procs |-> "idle"]
  /\ call = [p \in Procs |-> NoCall]
  /\ versDoc = [p \in Procs |-> NoDoc]
  /\ original = [p \in Procs |-> NoDoc]
  /\ delivered = [p \in Procs |-> <<>>]
  /\ pre = [p \in Procs |-> NoPre]
  /\ options \in [append_only : {FALSE}, delete_flag : BOOLEAN]
  /\ plugin = ForkPlugin(StorySchema, options)
  /\ flagged = {}
  /\ removals = {}

UpdateCalls(p) ==
  \E d \in Data, a \in DOMAIN model, v \in TokenArgs \ {Null} :
    UpsertVersionCall(p, d, a, v, Null)

NextUpdateRace ==
  \/ \E p \in Procs : UpdateCalls(p) /\ Snapshot(p)
  \/ \E p \in Procs : UvSaveShadow(p)
  \/ \E p \in Procs : UvUpdate(p)
  \/ RemovalStep

SpecUpdateRace == InitUpdateRace /\ [][NextUpdateRace]_vars

\* SpecCompensate: one caller calls upsertVersion for new documents and with
\* the _id of stored ones, and deleteOriginal, under any options; any store
\* request may fail, the removals under way included, and every removal
\* under way is eventually answered.  (The first Version Record comes with
\* an Active Document, so that the ids of Version Records are below MaxIds.)
NextCompensate ==
  \/ NewUpsertCalls(Caller) /\ UNCHANGED pre
  \/ UpdateCalls(Caller) /\ UNCHANGED pre
  \/ (\E a \in DOMAIN model : \E v \in {Null, model[a].link} :
        DeleteOriginalCall(Caller, a, v, Null)) /\ UNCHANGED pre
  \/ ForkStep(Caller)
  \/ UvFails(Caller)
  \/ DoFails(Caller)
  \/ RemovalStep
  \/ \E v \in removals : RemovalFails(v)

SpecCompensate ==
  /\ InitFork
  /\ [][NextCompensate]_vars
  /\ \A v \in 1..(MaxIds - 1) : WF_vars(RemovalStep /\ v \notin removals')

\* SpecDelete: one caller creates documents with upsertVersion and calls
\* deleteOriginal with any query, under any options, over a store that does
\* not fail.
NextDelete ==
  \/ NewUpsertCalls(Caller) /\ Snapshot(Caller)
  \/ DeleteOriginalCalls(Caller) /\ Snapshot(Caller)
  \/ UvSaveShadow(Caller)
  \/ UvUpsert(Caller)
  \/ DoFind(Caller)
  \/ DoSaveShadow(Caller)
  \/ DoFlag(Caller)
  \/ DoRemove(Caller)
  \/ RemovalStep

SpecDelete == InitFork /\ [][NextDelete]_vars

\* SpecHook: with hookWanted, one caller saves new documents and copies of
\* stored ones, under any options, over a store that may fail.
NextHook ==
  \/ (\E d \in Data : HookSaveCall(Caller, d, Null, Null)) /\ UNCHANGED pre
  \/ (\E d \in Data, a \in DOMAIN model, v \in TokenArgs :
        HookSaveCall(Caller, d, a, v)) /\ UNCHANGED pre
  \/ HsCheck(Caller)
  \/ HsSave(Caller)
  \/ HsSaveShadow(Caller)
  \/ HsShadowFails(Caller)
  \/ HsFails(Caller)

SpecHook == InitFork /\ [][NextHook]_vars

\* The other caller.
Deleter == CHOOSE p \in Procs : p # Caller

\* SpecDeleteRace: upsertVersion has created one document; while the first
\* caller updates it with upsertVersion and activates its versions, another
\* caller calls deleteOriginal with its _id and some version token, without
\* append_only; the store executes their requests in any order.
NextDeleteRace ==
  \/ UpdateCalls(Caller) /\ UNCHANGED pre
  \/ ActivateCalls(Caller) /\ UNCHANGED pre
  \/ (\E a \in DOMAIN model, v \in TokenArgs \ {Null} :
        DeleteOriginalCall(Deleter, a, v, Null)) /\ UNCHANGED pre
  \/ UvSaveShadow(Caller)
  \/ UvUpdate(Caller)
  \/ ActivateStep(Caller)
  \/ DoFind(Deleter)
  \/ DoFlag(Deleter)
  \/ DoRemove(Deleter)
  \/ RemovalStep

SpecDeleteRace == InitUpdateRace /\ [][NextDeleteRace]_vars

\* SpecRace: while the first caller saves and activates versions, another
\* caller deletes versions; the store executes their requests in any order.
NextRace ==
  \/ SaveCalls(Caller) /\ UNCHANGED pre
  \/ ActivateCalls(Caller) /\ UNCHANGED pre
  \/ DeleteCalls(Deleter) /\ UNCHANGED pre
  \/ \E p \in Procs : Step(p)

SpecRace == Init /\ [][NextRace]_vars

\* ------------------------------------------------------------------ claims
\* What the caller of Spec has been delivered: callback(null, value), once.
Delivered(value) == delivered[Caller] = <<[err |-> "null", value |-> value]>>

\* The caller's call of operation op is over.
Completed(op) == pc[Caller] = "idle" /\ call[Caller].op = op

\* Some Active Document of collection coll has versionId id.
IsActiveIn(coll, id) == \E a \in DOMAIN coll : coll[a].link = id

\* C1: after any sequence of completed saveVersion and activateVersion calls
\* made one at a time with arbitrary arguments (no Version Record has been
\* removed), the versionId of every Active Document A names a stored
\* Version Record whose versionOfId is A's id.
C1_ActivePointsAtOwnVersion ==
  (Quiescent /\ Cardinality(DOMAIN shadowModel) = nextVersion) =>
    \A a \in DOMAIN model :
      /\ model[a].link \in DOMAIN shadowModel
      /\ shadowModel[model[a].link].link = a

\* C2: deleteVersion(id) called while an Active Document has versionId id
\* delivers {success: false}, the Version Record is still stored and both
\* collections are as they were.
C2_ActiveVersionNotDeleted ==
  (Completed("deleteVersion") /\ IsActiveIn(pre[Caller].model, call[Caller].id)) =>
    /\ Delivered(StatusValue(FALSE))
    /\ call[Caller].id \in DOMAIN shadowModel
    /\ model = pre[Caller].model
    /\ shadowModel = pre[Caller].shadowModel

C2_Witness ==
  /\ Completed("deleteVersion")
  /\ IsActiveIn(pre[Caller].model, call[Caller].id)
  /\ call[Caller].id \in DOMAIN pre[Caller].shadowModel
  /\ Delivered(StatusValue(FALSE))

\* C3: whatever the order in which the store executes the requests of a
\* deleteVersion and of concurrent saveVersion and activateVersion calls, no
\* Version Record is removed while it is the versionId of an Active Document.
C3_NeverRemovedWhileActive ==
  [][\A v \in DOMAIN shadowModel :
       v \notin DOMAIN shadowModel' => ~IsActiveIn(model, v)]_vars

\* C4: a saveVersion call with versionId null whose versionOfId resolves to
\* no Active Document creates exactly one Version Record V and exactly one
\* Active Document A, with A.versionId = V.id, V.versionOfId = A.id (not
\* the versionOfId supplied), A's fields equal to data, and delivers V.
C4_NewLineage ==
  LET c == call[Caller]
      P == pre[Caller]
  IN (/\ Completed("saveVersion")
      /\ c.versionId = Null
      /\ c.versionOfId \notin DOMAIN P.model) =>
       \E v \in DOMAIN shadowModel \ DOMAIN P.shadowModel,
          a \in DOMAIN model \ DOMAIN P.model :
         /\ DOMAIN shadowModel = DOMAIN P.shadowModel \cup {v}
         /\ DOMAIN model = DOMAIN P.model \cup {a}
         /\ \A w \in DOMAIN P.shadowModel : shadowModel[w] = P.shadowModel[w]
         /\ \A b \in DOMAIN P.model : model[b] = P.model[b]
         /\ model[a] = [title |-> c.data, link |-> v]
         /\ shadowModel[v] = [title |-> c.data, link |-> a]
         /\ a # c.versionOfId
         /\ Delivered(DocValue("version", Hydrate(v, shadowModel[v])))

C4_Witness ==
  /\ Completed("saveVersion")
  /\ call[Caller].versionId = Null
  /\ call[Caller].versionOfId = StaleActiveId
  /\ Cardinality(DOMAIN model) = Cardinality(DOMAIN pre[Caller].model) + 1
  /\ Cardinality(DOMAIN pre[Caller].model) = 1
  /\ delivered[Caller] # <<>>

\* C5: saveVersion({data, versionId: V1, versionOfId: A.id}) for an Active
\* Document A with A.versionId = V1 overwrites V1 in place (as many Version
\* Records as before), makes A's fields equal to data and leaves
\* A.versionId = V1.
C5_EditOfActiveVersion ==
  LET c == call[Caller]
      P == pre[Caller]
  IN (/\ Completed("saveVersion")
      /\ c.versionOfId \in DOMAIN P.model
      /\ P.model[c.versionOfId].link = c.versionId) =>
       /\ DOMAIN shadowModel = DOMAIN P.shadowModel
       /\ c.versionId \in DOMAIN shadowModel
       /\ shadowModel[c.versionId].title = c.data
       /\ model[c.versionOfId] = [title |-> c.data, link |-> c.versionId]

C5_Witness ==
  LET c == call[Caller]
      P == pre[Caller]
  IN /\ Completed("saveVersion")
     /\ c.versionOfId \in DOMAIN P.model
     /\ P.model[c.versionOfId].link = c.versionId
     /\ P.model[c.versionOfId].title # c.data
     /\ model[c.versionOfId].title = c.data

\* The id of the Version Record a saveVersion call with these arguments
\* saves cannot be the versionId of the Active Document versionOfId names.
SavesOtherVersion(c, P) ==
  /\ c.versionOfId \in DOMAIN P.model
  /\ c.versionId \notin DOMAIN P.shadowModel \/ c.versionId # P.model[c.versionOfId].link

\* C6: when saveVersion saves a Version Record whose id is not the
\* versionId of the existing Active Document versionOfId names, the Active
\* Document is left as it was, the Version Record is stored and the caller
\* is delivered it, without error.
C6_OtherVersionLeavesActive ==
  LET c == call[Caller]
      P == pre[Caller]
  IN (Completed("saveVersion") /\ SavesOtherVersion(c, P)) =>
       /\ model = P.model
       /\ Len(delivered[Caller]) = 1
       /\ LET v == delivered[Caller][1].value.id
          IN /\ v \in DOMAIN shadowModel
             /\ v # P.model[c.versionOfId].link
             /\ shadowModel[v] = [title |-> c.data, link |-> c.versionOfId]
             /\ Delivered(DocValue("version", Hydrate(v, shadowModel[v])))

C6_Witness ==
  LET c == call[Caller]
      P == pre[Caller]
  IN /\ Completed("saveVersion")
     /\ SavesOtherVersion(c, P)
     /\ c.versionId \in DOMAIN P.shadowModel
     /\ P.shadowModel[c.versionId].title # c.data
     /\ P.model[c.versionOfId].title # c.data
     /\ shadowModel[c.versionId].title = c.data

\* C7: saveNewVersionOf(A.id, data) for an existing Active Document A adds
\* exactly one Version Record, with versionOfId = A.id and fields data,
\* changes no other Version Record and leaves A as it was.
C7_SaveNewVersionOf ==
  LET c == call[Caller]
      P == pre[Caller]
  IN (Completed("saveNewVersionOf") /\ c.versionOfId \in DOMAIN P.model) =>
       /\ model = P.model
       /\ \E v \in DOMAIN shadowModel \ DOMAIN P.shadowModel :
            /\ DOMAIN shadowModel = DOMAIN P.shadowModel \cup {v}
            /\ shadowModel[v] = [title |-> c.data, link |-> c.versionOfId]
            /\ \A w \in DOMAIN P.shadowModel : shadowModel[w] = P.shadowModel[w]

C7_Witness ==
  LET c == call[Caller]
      P == pre[Caller]
  IN /\ Completed("saveNewVersionOf")
     /\ c.versionOfId \in DOMAIN P.model
     /\ P.model[c.versionOfId].title # c.data
     /\ Cardinality(DOMAIN shadowModel) = Cardinality(DOMAIN P.shadowModel) + 1

\* C8: activateVersion(V.id), for a Version Record V whose versionOfId names
\* an Active Document A, leaves A with versionId = V.id and V's fields,
\* delivers the saved A, and changes no Version Record and no other Active
\* Document.
C8_Activate ==
  LET c == call[Caller]
      P == pre[Caller]
  IN (/\ Completed("activateVersion")
      /\ c.id \in DOMAIN P.shadowModel
      /\ P.shadowModel[c.id].link \in DOMAIN P.model) =>
       LET a == P.shadowModel[c.id].link
       IN /\ DOMAIN model = DOMAIN P.model
          /\ model[a] = [title |-> P.shadowModel[c.id].title, link |-> c.id]
          /\ \A b \in DOMAIN P.model \ {a} : model[b] = P.model[b]
          /\ shadowModel = P.shadowModel
          /\ Delivered(DocValue("active", Hydrate(a, model[a])))

C8_Witness ==
  LET c == call[Caller]
      P == pre[Caller]
  IN /\ Completed("activateVersion")
     /\ c.id \in DOMAIN P.shadowModel
     /\ P.shadowModel[c.id].link \in DOMAIN P.model
     /\ P.model[P.shadowModel[c.id].link].link # c.id
     /\ P.model[P.shadowModel[c.id].link].title # P.shadowModel[c.id].title
     /\ model[P.shadowModel[c.id].link].link = c.id
     /\ Cardinality(DOMAIN model) = 2

\* C9: deletability follows the active pointer.  After activateVersion(V2)
\* succeeds on an Active Document whose versionId was V1, a following
\* deleteVersion(V1) delivers {success: true} and removes V1 and a following
\* deleteVersion(V2) delivers {success: false}; before the activation
\* deleteVersion(V1) delivers {success: false} and no Active Document stands
\* in the way of deleteVersion(V2).
C9_DeletabilityFollowsPointer ==
  LET c == call[Caller]
      P == pre[Caller]
  IN /\ (/\ Completed("deleteVersion")
         /\ P.prev.op = "activateVersion"
         /\ P.prev.ok
         /\ P.prev.was # P.prev.id) =>
          /\ c.id = P.prev.was =>
               Delivered(StatusValue(TRUE)) /\ c.id \notin DOMAIN shadowModel
          /\ c.id = P.prev.id => Delivered(StatusValue(FALSE))
     /\ (/\ Completed("activateVersion")
         /\ Previous(Caller).ok
         /\ Previous(Caller).was # c.id) =>
          /\ (P.prev.op = "deleteVersion" /\ P.prev.id = Previous(Caller).was) =>
               ~P.prev.ok
          /\ ~IsActiveIn(P.model, c.id)

\* C10: when no Active Document has versionId = id, deleteVersion(id)
\* delivers {success: true} and removes exactly the Version Record with that
\* id if it exists (every other Version Record and every Active Document as
\* before), and delivers {success: false} with both collections as before
\* if it does not.
C10_DeleteInactive ==
  LET c == call[Caller]
      P == pre[Caller]
  IN (Completed("deleteVersion") /\ ~IsActiveIn(P.model, c.id)) =>
       /\ model = P.model
       /\ IF c.id \in DOMAIN P.shadowModel
          THEN /\ Delivered(StatusValue(TRUE))
               /\ DOMAIN shadowModel = DOMAIN P.shadowModel \ {c.id}
               /\ \A w \in DOMAIN shadowModel : shadowModel[w] = P.shadowModel[w]
          ELSE /\ Delivered(StatusValue(FALSE))
               /\ shadowModel = P.shadowModel

C10_Witness ==
  LET c == call[Caller]
      P == pre[Caller]
  IN /\ Completed("deleteVersion")
     /\ ~IsActiveIn(P.model, c.id)
     /\ c.id \in DOMAIN P.shadowModel
     /\ \E w \in DOMAIN shadowModel : P.shadowModel[w].link = P.shadowModel[c.id].link
     /\ Delivered(StatusValue(TRUE))

\* The version id of an activateVersion call names no Version Record, or a
\* Version Record whose versionOfId names no Active Document.
NothingToActivate(c, P) ==
  \/ c.id \notin DOMAIN P.shadowModel
  \/ P.shadowModel[c.id].link \notin DOMAIN P.model

\* C11: activateVersion(id) delivers a failure (the callback's error
\* argument, no result) and leaves both collections as they were when no
\* Version Record has that id, and when the Version Record's versionOfId
\* names no Active Document.
C11_ActivateFails ==
  LET c == call[Caller]
      P == pre[Caller]
  IN (Completed("activateVersion") /\ NothingToActivate(c, P)) =>
       /\ Len(delivered[Caller]) = 1
       /\ delivered[Caller][1].err # "null"
       /\ delivered[Caller][1].value = NoValue
       /\ model = P.model
       /\ shadowModel = P.shadowModel

C11_Witness ==
  LET c == call[Caller]
      P == pre[Caller]
  IN /\ Completed("activateVersion")
     /\ c.id \in DOMAIN P.shadowModel
     /\ P.shadowModel[c.id].link \notin DOMAIN P.model
     /\ P.model # <<>>
     /\ delivered[Caller] = <<[err |-> "failure", value |-> NoValue]>>

\* C12: round trip.  For every data and every versionOfId, resolving to an
\* Active Document or not, saveVersion({data, versionId: null, versionOfId})
\* followed by activateVersion of the id of the Version Record it delivered
\* succeeds and delivers an Active Document whose fields equal data and
\* whose versionId is that id.
C12_RoundTrip ==
  LET c == call[Caller]
      P == pre[Caller]
  IN (/\ Completed("activateVersion")
      /\ P.prev.op = "saveVersion"
      /\ P.prev.ok
      /\ P.prev.was = Null
      /\ c.id = P.prev.id) =>
       /\ Len(delivered[Caller]) = 1
       /\ delivered[Caller][1].err = "null"
       /\ LET value == delivered[Caller][1].value
          IN /\ value.kind = "active"
             /\ value.title = P.prev.data
             /\ value.link = c.id
             /\ value.id \in DOMAIN model
             /\ model[value.id] = [title |-> P.prev.data, link |-> c.id]

C12_Witness ==
  LET c == call[Caller]
      P == pre[Caller]
  IN /\ Completed("activateVersion")
     /\ P.prev.op = "saveVersion"
     /\ P.prev.ok
     /\ P.prev.was = Null
     /\ c.id = P.prev.id
     /\ P.shadowModel[c.id].link \in DOMAIN P.model
     /\ P.model[P.shadowModel[c.id].link].link # c.id
     /\ P.model[P.shadowModel[c.id].link].title # P.prev.data
     /\ delivered[Caller] # <<>>
     /\ delivered[Caller][1].value.title = P.prev.data

\* What the caller has been delivered is callback(err, value) with err not
\* a store error.
NoStoreError == Len(delivered[Caller]) = 1 /\ delivered[Caller][1].err # "error"

\* C13: findVersions(id) delivers {activeId: null, docs: []} without error
\* when no Active Document has that id, whether or not Version Records with
\* that versionOfId exist; otherwise it delivers the Active Document's
\* versionId as activeId together with exactly the Version Records whose
\* versionOfId is id.  The instance method delivers exactly the Version
\* Records whose versionOfId is the document's id.
C13_FindVersions ==
  LET c == call[Caller]
  IN /\ (Completed("findVersions") /\ NoStoreError) =>
          IF c.id \notin DOMAIN model
          THEN Delivered(VersionsValue(Null, {}))
          ELSE Delivered(VersionsValue(model[c.id].link,
                                       {[id |-> v, title |-> shadowModel[v].title, link |-> c.id] :
                                          v \in {w \in DOMAIN shadowModel :
                                                   shadowModel[w].link = c.id}}))
     /\ (Completed("instanceFindVersions") /\ NoStoreError) =>
          /\ delivered[Caller][1].err = "null"
          /\ delivered[Caller][1].value.docs =
               {[id |-> v, title |-> shadowModel[v].title, link |-> c.id] :
                  v \in {w \in DOMAIN shadowModel : shadowModel[w].link = c.id}}

C13_Witness ==
  /\ Completed("findVersions")
  /\ call[Caller].id \in DOMAIN model
  /\ delivered[Caller] # <<>>
  /\ Cardinality(delivered[Caller][1].value.docs) = 1
  /\ Cardinality(DOMAIN shadowModel) = 2
  /\ delivered[Caller][1].value.link # Null

ReadOps == {"findVersionById", "findVersions", "instanceFindVersions"}

\* C14: findVersionById, findVersions and the instance findVersions change
\* neither collection, and findVersionById called twice with the same id,
\* with no write in between, delivers equal results.
C14_ReadsOnly ==
  LET c == call[Caller]
      P == pre[Caller]
  IN /\ (pc[Caller] = "idle" /\ c.op \in ReadOps) =>
          model = P.model /\ shadowModel = P.shadowModel
     /\ (/\ Completed("findVersionById")
         /\ P.prev.op = "findVersionById"
         /\ P.prev.id = c.id) =>
          /\ Len(delivered[Caller]) = 1
          /\ (delivered[Caller][1].err = "null") = P.prev.ok
          /\ delivered[Caller][1].value.link = P.prev.was
          /\ delivered[Caller][1].value.title = P.prev.data

C14_Witness ==
  /\ Completed("findVersionById")
  /\ pre[Caller].prev.op = "findVersionById"
  /\ pre[Caller].prev.id = call[Caller].id
  /\ pre[Caller].prev.data # Null
  /\ Cardinality(DOMAIN shadowModel) = 2
  /\ delivered[Caller] # <<>>
  /\ delivered[Caller][1].value.kind = "version"

\* C15: every successful completion of saveVersion delivers a Version
\* Record, never an empty result, and the record delivered is the one
\* stored; on the promotion path (new lineage, or edit of the version that
\* is the Active Document's versionId) its versionOfId is the id of the
\* Active Document written.
C15_SaveDeliversVersion ==
  LET c == call[Caller]
      P == pre[Caller]
  IN (pc[Caller] = "idle" /\ c.op \in {"saveVersion", "saveNewVersionOf"}) =>
       /\ Len(delivered[Caller]) = 1
       /\ delivered[Caller][1].err = "null"
       /\ LET value == delivered[Caller][1].value
          IN /\ value.kind = "version"
             /\ value.id \in DOMAIN shadowModel
             /\ shadowModel[value.id] = [title |-> value.title, link |-> value.link]
             /\ (\/ c.versionOfId \notin DOMAIN P.model
                 \/ P.model[c.versionOfId].link = value.id) =>
                  /\ value.link \in DOMAIN model
                  /\ model[value.link] = [title |-> c.data, link |-> value.id]

C15_Witness ==
  LET c == call[Caller]
      P == pre[Caller]
  IN /\ Completed("saveVersion")
     /\ c.versionOfId \in DOMAIN P.model
     /\ P.model[c.versionOfId].link = c.versionId
     /\ Cardinality(DOMAIN P.shadowModel) = 2
     /\ delivered[Caller] # <<>>
     /\ delivered[Caller][1].value.kind = "version"
     /\ delivered[Caller][1].value.link = c.versionOfId

\* C16: every invocation of a protocol operation calls the caller's
\* callback exactly once, on every path, store errors included: no call is
\* over with the callback called zero times or twice.
C16_CallbackOnce ==
  (pc[Caller] = "idle" /\ call[Caller].op # "none") => Len(delivered[Caller]) = 1

SaveFails ==
  /\ call[Caller].op \in {"saveVersion", "saveNewVersionOf"}
  /\ pc[Caller] # "idle"
  /\ pc'[Caller] = "idle"
  /\ Len(delivered'[Caller]) = 1
  /\ delivered'[Caller][1].err = "error"

\* C18: when a store request fails inside saveVersion the error is delivered
\* and nothing already written is undone.  When it is the Active Document
\* write that fails, the Version Record written in the first step stays
\* stored with the fields and the versionOfId it was saved with, and the
\* Active Document stays as the call found it, or does not exist when the
\* call was creating it.
C18_NothingUndone ==
  [][SaveFails =>
       /\ model' = model
       /\ shadowModel' = shadowModel
       /\ delivered'[Caller] = <<[err |-> "error", value |-> NoValue]>>
       /\ pc[Caller] = "sv_saveOriginal" =>
            LET c == call[Caller]
                v == versDoc[Caller].id
            IN /\ v \in DOMAIN shadowModel'
               /\ shadowModel'[v] = [title |-> c.data, link |-> OrNull(c.versionOfId)]
               /\ model' = pre[Caller].model
               /\ original[Caller].id \in DOMAIN model' <=>
                    c.versionOfId \in DOMAIN pre[Caller].model]_vars

\* A saveVersion that found nothing stored has written its Version Record
\* and has ended with a store error, and no Active Document is stored.
C18_Witness ==
  /\ Completed("saveVersion")
  /\ delivered[Caller] = <<[err |-> "error", value |-> NoValue]>>
  /\ pre[Caller].shadowModel = <<>>
  /\ pre[Caller].model = <<>>
  /\ \E v \in DOMAIN shadowModel :
       shadowModel[v] = [title |-> call[Caller].data, link |-> Null]
  /\ model = <<>>

\* Both callers have called upsertVersion for a new document with the
\* uniqueness query {title: q}, neither call found a matching Active
\* Document stored when it was made, and both calls and the removals they
\* started are over.
RacedFor(q) ==
  /\ Quiescent
  /\ removals = {}
  /\ \A p \in Procs :
       /\ call[p].op = "upsertVersion"
       /\ call[p].versionOfId = Null
       /\ call[p].id = q
       /\ Matching(pre[p].model, q, Null) = {}
       /\ Len(delivered[p]) = 1

\* C19: when two concurrent upsertVersion calls for a new document carry the
\* same uniqueness query and no Active Document matched it beforehand, then
\* once both calls and their compensating removals are over exactly one
\* Active Document matches the query, its versionId names a stored Version
\* Record whose versionOfId is its id, and the losing call's Version Record
\* has been removed: both calls deliver that Active Document, which has one
\* Version Record, and no Version Record is left without Active Document.
C19_OneWinner ==
  \A q \in Data :
    RacedFor(q) =>
      \E a \in DOMAIN model :
        /\ Matching(model, q, Null) = {a}
        /\ a \notin DOMAIN pre[Caller].model
        /\ model[a].link \in DOMAIN shadowModel
        /\ shadowModel[model[a].link].link = a
        /\ {v \in DOMAIN shadowModel : shadowModel[v].link = a} = {model[a].link}
        /\ \A v \in DOMAIN shadowModel : shadowModel[v].link \in DOMAIN model
        /\ \A p \in Procs :
             delivered[p] = <<[err |-> "null", value |-> DocValue("active", Hydrate(a, model[a]))]>>

\* Both calls were made before either had stored anything.
C19_Witness ==
  /\ \E q \in Data : RacedFor(q)
  /\ \A p \in Procs : pre[p].model = <<>> /\ pre[p].shadowModel = <<>>
  /\ Cardinality(DOMAIN model) = 1
  /\ Cardinality(DOMAIN shadowModel) = 1
  /\ nextVersion = 2

\* The caller's upsertVersion without append_only named a stored Active
\* Document and carried a version token other than that document's
\* versionId, and no request was answered with a store error.
StaleToken ==
  LET c == call[Caller]
      P == pre[Caller]
  IN /\ Completed("upsertVersion")
     /\ ~options.append_only
     /\ c.versionOfId \in DOMAIN P.model
     /\ c.versionId # Null
     /\ c.versionId # P.model[c.versionOfId].link
     /\ NoStoreError

\* C20: a non-append-only upsertVersion on a stored document with a version
\* token other than the Active Document's versionId delivers the
\* concurrency conflict error and leaves the Active Documents as they were;
\* its speculative Version Record is removed, so that once the removals are
\* over the Version Records are those stored before the call (less the ones
\* whose removal was under way then).
C20_StaleTokenConflict ==
  LET P == pre[Caller]
  IN StaleToken =>
       /\ delivered[Caller] = <<[err |-> "conflict", value |-> NoValue]>>
       /\ model = P.model
       /\ removals = {} =>
            shadowModel = [v \in DOMAIN P.shadowModel \ P.removals |-> P.shadowModel[v]]

\* The speculative Version Record was stored and has been removed.
C20_Witness ==
  /\ StaleToken
  /\ removals = {}
  /\ pre[Caller].removals = {}
  /\ pre[Caller].shadowModel # <<>>
  /\ shadowModel = pre[Caller].shadowModel
  /\ nextVersion > Cardinality(DOMAIN shadowModel)

\* Both callers have called upsertVersion for the stored Active Document a
\* with the same version token, which was its versionId when each call was
\* made, and both calls and the removals they started are over.
RacedOn(a) ==
  /\ Quiescent
  /\ removals = {}
  /\ ~options.append_only
  /\ \A p, q \in Procs : call[p].versionId = call[q].versionId
  /\ \A p \in Procs :
       /\ call[p].op = "upsertVersion"
       /\ call[p].versionOfId = a
       /\ a \in DOMAIN pre[p].model
       /\ call[p].versionId = pre[p].model[a].link
       /\ Len(delivered[p]) = 1

\* C21: without append_only, when two upsertVersion updates of the same
\* stored Active Document carry the same version token and run
\* concurrently, one of them succeeds and the other is delivered the
\* concurrency conflict error; the Active Document ends with the winner's
\* data and with the winner's new Version Record as versionId, and the
\* other call's Version Record is removed.
C21_OneUpdateWins ==
  \A a \in DOMAIN model :
    RacedOn(a) =>
      \E w \in Procs :
        LET v == model[a].link
        IN /\ delivered[w][1].err = "null"
           /\ \A l \in Procs \ {w} :
                delivered[l] = <<[err |-> "conflict", value |-> NoValue]>>
           /\ model[a].title = call[w].data
           /\ v \in DOMAIN shadowModel \ DOMAIN pre[w].shadowModel
           /\ shadowModel[v] = [title |-> call[w].data, link |-> a]
           /\ \A p \in Procs : DOMAIN shadowModel \ {v} \subseteq DOMAIN pre[p].shadowModel

\* The two calls carried different data.
C21_Witness ==
  /\ \E a \in DOMAIN model : RacedOn(a)
  /\ call[Caller].data # call[Deleter].data
  /\ \E p \in Procs : delivered[p][1].err = "conflict"

\* Both callers have called saveVersion for the Version Record v and the
\* Active Document a whose versionId is v (no call of SpecSaveRace changes
\* the versionId of a stored Active Document), and both calls have delivered
\* a Version Record.
BothSaved(a, v) ==
  /\ Quiescent
  /\ model[a].link = v
  /\ \A p \in Procs :
       /\ call[p].op = "saveVersion"
       /\ call[p].versionId = v
       /\ call[p].versionOfId = a
       /\ Len(delivered[p]) = 1
       /\ delivered[p][1].err = "null"
       /\ delivered[p][1].value.kind = "version"

\* C22: when two saveVersion calls for the active Version Record of the
\* same Active Document are interleaved, then once both have succeeded the
\* fields of the Active Document are the fields of the Version Record its
\* versionId names.
C22_NoClobber ==
  \A a \in DOMAIN model : \A v \in DOMAIN shadowModel :
    BothSaved(a, v) => model[a].title = shadowModel[v].title

\* The step in which the caller's saveVersion writes the stored Active
\* Document a.
SaveWrites(a) ==
  /\ pc[Caller] = "sv_saveOriginal"
  /\ original[Caller].id = a
  /\ a \in DOMAIN model
  /\ pc'[Caller] # "sv_saveOriginal"
  /\ model' # model

\* C23: under every interleaving of a saveVersion with an activateVersion on
\* the same Active Document, saveVersion writes the Active Document only if
\* at the moment of the write the Active Document's versionId is the id of
\* the Version Record it saved: a save of a version that has stopped being
\* active does not overwrite the fields of the Active Document.
C23_WritesOnlyIfActive ==
  [][\A a \in DOMAIN model :
       SaveWrites(a) => model[a].link = versDoc[Caller].id]_vars

\* The caller's deleteOriginal has succeeded: callback().
Deleted ==
  /\ Completed("deleteOriginal")
  /\ delivered[Caller] = <<[err |-> "null", value |-> NoValue]>>

\* What a successful deleteOriginal under append_only has done when its new
\* Version Record has the fields of the Active Document a it found,
\* overridden or not by those of dataObj: a is removed and nothing else, one Version Record is new, it has
\* a as versionOfId and the delete flag if one is configured, and the
\* Version Records stored before are as they were (but for those whose
\* removal was under way).
Appended(overridden) ==
  LET P == pre[Caller]
      fields(a) == IF overridden /\ call[Caller].data # Null THEN call[Caller].data
                   ELSE P.model[a].title
  IN \E a \in DOMAIN P.model : \E v \in DOMAIN shadowModel \ DOMAIN P.shadowModel :
       /\ model = RemoveFrom(P.model, a)
       /\ DOMAIN shadowModel \ DOMAIN P.shadowModel = {v}
       /\ shadowModel[v] = [title |-> fields(a), link |-> a]
       /\ v \in flagged <=> options.delete_flag
       /\ flagged \ {v} = P.flagged \cap DOMAIN shadowModel
       /\ DOMAIN P.shadowModel \ P.removals \subseteq DOMAIN shadowModel
       /\ \A u \in DOMAIN shadowModel \ {v} : shadowModel[u] = P.shadowModel[u]

FlaggedMode == ~options.append_only /\ options.delete_flag

\* C25: in flagged mode a successful deleteOriginal sets the delete flag on
\* the stored Version Record the version token names, creates no Version
\* Record and removes the Active Document whose versionId is the token;
\* when no Version Record has the token's id the call fails and no Active
\* Document is removed.
C25_FlaggedDelete ==
  LET c == call[Caller]
      P == pre[Caller]
  IN (Completed("deleteOriginal") /\ FlaggedMode) =>
       /\ Deleted =>
            /\ c.versionId \in DOMAIN P.shadowModel \cap DOMAIN shadowModel
            /\ c.versionId \in flagged
            /\ flagged \ {c.versionId} = (P.flagged \cap DOMAIN shadowModel) \ {c.versionId}
            /\ DOMAIN shadowModel \subseteq DOMAIN P.shadowModel
            /\ \A u \in DOMAIN shadowModel : shadowModel[u] = P.shadowModel[u]
            /\ \E a \in DOMAIN P.model :
                 /\ P.model[a].link = c.versionId
                 /\ model = RemoveFrom(P.model, a)
       /\ c.versionId \notin DOMAIN P.shadowModel =>
            /\ Len(delivered[Caller]) = 1
            /\ delivered[Caller][1].err # "null"
            /\ model = P.model
            /\ flagged = P.flagged \cap DOMAIN shadowModel

\* The version of the only Active Document has been flagged and the document
\* removed.
C25_Witness ==
  /\ Deleted
  /\ FlaggedMode
  /\ call[Caller].versionId \in flagged
  /\ pre[Caller].flagged = {}
  /\ pre[Caller].model # <<>>
  /\ model = <<>>

\* Nothing stored has changed since the caller's call was made, but for the
\* removals that were under way then.
StoresUnchanged ==
  LET P == pre[Caller]
  IN /\ model = P.model
     /\ DOMAIN P.shadowModel \ P.removals \subseteq DOMAIN shadowModel
     /\ DOMAIN shadowModel \subseteq DOMAIN P.shadowModel
     /\ \A u \in DOMAIN shadowModel : shadowModel[u] = P.shadowModel[u]
     /\ flagged = P.flagged \cap DOMAIN shadowModel

\* C26: without append_only deleteOriginal needs the version token.  A call
\* without it fails before any request is made to the store (the call is
\* over in the step that makes it), and a call that names a stored Active
\* Document with a token other than its versionId fails with the
\* concurrency conflict error; in both cases the Active Documents and the
\* Version Records stay as they were.
C26_TokenRequired ==
  LET c == call[Caller]
      P == pre[Caller]
  IN (c.op = "deleteOriginal" /\ ~options.append_only) =>
       /\ c.versionId = Null =>
            /\ pc[Caller] = "idle"
            /\ delivered[Caller] = <<[err |-> "refused", value |-> NoValue]>>
            /\ StoresUnchanged
       /\ ( /\ pc[Caller] = "idle"
            /\ NoStoreError
            /\ c.versionOfId \in DOMAIN P.model
            /\ c.versionId # Null
            /\ c.versionId # P.model[c.versionOfId].link ) =>
            /\ delivered[Caller] = <<[err |-> "conflict", value |-> NoValue]>>
            /\ StoresUnchanged

\* A call with a token that is not the Active Document's versionId has
\* failed.
C26_Witness ==
  /\ Completed("deleteOriginal")
  /\ ~options.append_only
  /\ call[Caller].versionOfId \in DOMAIN pre[Caller].model
  /\ call[Caller].versionId # Null
  /\ call[Caller].versionId # pre[Caller].model[call[Caller].versionOfId].link
  /\ delivered[Caller] = <<[err |-> "conflict", value |-> NoValue]>>

\* C27: under append_only every upsertVersion that names a stored Active
\* Document succeeds whatever version token it carries, adds exactly one
\* Version Record, which has the document's id as versionOfId, and makes it
\* the Active Document's versionId; no Version Record stored before is
\* overwritten.
C27_AppendOnlyUpdate ==
  LET c == call[Caller]
      P == pre[Caller]
      a == c.versionOfId
  IN ( /\ Completed("upsertVersion")
       /\ options.append_only
       /\ a \in DOMAIN P.model
       /\ NoStoreError ) =>
       /\ delivered[Caller][1].err = "null"
       /\ \E v \in DOMAIN shadowModel \ DOMAIN P.shadowModel :
            /\ DOMAIN shadowModel \ DOMAIN P.shadowModel = {v}
            /\ shadowModel[v] = [title |-> c.data, link |-> a]
            /\ model = [P.model EXCEPT ![a] = [title |-> c.data, link |-> v]]
            /\ DOMAIN P.shadowModel \ P.removals \subseteq DOMAIN shadowModel
            /\ \A u \in DOMAIN shadowModel \ {v} : shadowModel[u] = P.shadowModel[u]

\* A call with a token that is not the Active Document's versionId has
\* succeeded.
C27_Witness ==
  /\ Completed("upsertVersion")
  /\ options.append_only
  /\ call[Caller].versionOfId \in DOMAIN pre[Caller].model
  /\ call[Caller].versionId # pre[Caller].model[call[Caller].versionOfId].link
  /\ Len(delivered[Caller]) = 1
  /\ delivered[Caller][1].err = "null"
  /\ model # pre[Caller].model

\* C28: once the versionOfId of a Version Record names a stored Active
\* Document, no step of a saveVersion, saveNewVersionOf or activateVersion
\* call makes it name another Active Document or null.
C28_VersionOfIdWrittenOnce ==
  [][\A v \in DOMAIN shadowModel \cap DOMAIN shadowModel' :
       shadowModel[v].link \in DOMAIN model =>
         shadowModel'[v].link = shadowModel[v].link]_vars

\* The plugin has been applied and has not thrown.
SetUp == plugin.state = "ok"

\* One of the link field names is a path of the schema the plugin is
\* applied to.
Collision ==
  \/ plugin.versionOfIdPath \in plugin.declared
  \/ plugin.versionIdPath \in plugin.declared

\* C29 as stated: after setup the shadow schema has every path of the
\* primary schema except _id, and versionOfId, and no other; the primary
\* schema has gained versionId, which the shadow schema has not.
C29_ShadowShape ==
  SetUp =>
    /\ plugin.shadowSchema = (plugin.declared \ {"_id"}) \cup {plugin.versionOfIdPath}
    /\ plugin.schema = plugin.declared \cup {plugin.versionIdPath}
    /\ plugin.versionIdPath \notin plugin.shadowSchema

\* C29 amended: when neither link field name is a path of the primary
\* schema, the shadow schema has every path of the primary schema except
\* _id, versionOfId, and the delete flag when the plugin of
\* src/unnamed/part_000 is given one.
C29_ShadowShapeWithFlag ==
  (SetUp /\ ~Collision) =>
    /\ plugin.shadowSchema =
         (plugin.declared \ {"_id"}) \cup {plugin.versionOfIdPath}
           \cup (IF plugin.by = "fork" /\ options.delete_flag THEN {DeleteFlag} ELSE {})
    /\ plugin.schema = plugin.declared \cup {plugin.versionIdPath}
    /\ plugin.versionIdPath \notin plugin.shadowSchema

\* The plugin of src/unnamed/part_000 has been applied with a delete flag to
\* a schema with the path title.
C29_Witness ==
  /\ SetUp
  /\ ~Collision
  /\ plugin.by = "fork"
  /\ options.delete_flag
  /\ plugin.declared = {"_id", "title"}
  /\ plugin.shadowSchema = {"title", "versionOfId", DeleteFlag}

\* C30: setup fails with a configuration error and makes no shadow schema
\* whenever the versionOfId field name or the versionId field name is a path
\* of the primary schema.
C30_CollisionFails ==
  (plugin.state # "declared" /\ Collision) =>
    /\ plugin.state = "error"
    /\ plugin.shadowSchema = {}
    /\ plugin.schema = plugin.declared

\* C31: on every connection the shadow model is registered at most once and
\* under the name StoryShadow, every resolve returns without an error the
\* handle registered on its connection, the handles of two connections
\* differ, and every record of a connection's shadow collection was written
\* through that connection's handle.
C31_ResolveIdempotent ==
  /\ \A c \in Conns :
       /\ plugin.registered[c] <= 1
       /\ plugin.models[c] # NoModel =>
            /\ plugin.registered[c] = 1
            /\ plugin.models[c].name = ShadowName
       /\ \A c2 \in Conns \ {c} :
            plugin.models[c] # NoModel => plugin.models[c] # plugin.models[c2]
       /\ \A r \in plugin.collections[c] : r.by = c
  /\ plugin.result.conn # 0 =>
       /\ ~plugin.result.err
       /\ plugin.result.handle = plugin.models[plugin.result.conn]

\* Both connections have a shadow model, one of them has resolved it at
\* least twice, and both have written records.
C31_Witness ==
  /\ \A c \in Conns : plugin.registered[c] = 1 /\ plugin.collections[c] # {}
  /\ \E c \in Conns : Cardinality(plugin.collections[c]) >= 2

\* C32: no Version Record is the versionId target of two different Active
\* Documents.
C32_OneActivePerVersion ==
  \A a, b \in DOMAIN model :
    (model[a].link # Null /\ model[a].link = model[b].link) => a = b

\* C33: when no call is running, the domain fields of every Active Document
\* equal those of the stored Version Record named by its versionId.
C33_ActiveIsCopy ==
  (\A p \in Procs : pc[p] = "idle") =>
    \A a \in DOMAIN model :
      model[a].link \in DOMAIN shadowModel =>
        model[a].title = shadowModel[model[a].link].title

\* C34: in every state of an activateVersion call, started or finished, the
\* Version Records are those the call found, and every Active Document is
\* either as the call found it or carries both the fields of the Version
\* Record being activated and its id as versionId; after a store error the
\* Active Documents are as the call found them.
C34_ActivateInOneWrite ==
  LET c == call[Caller]
      P == pre[Caller]
  IN c.op = "activateVersion" =>
       /\ shadowModel = P.shadowModel
       /\ DOMAIN model = DOMAIN P.model
       /\ \A a \in DOMAIN model :
            \/ model[a] = P.model[a]
            \/ /\ c.id \in DOMAIN P.shadowModel
               /\ model[a] = [title |-> P.shadowModel[c.id].title, link |-> c.id]
       /\ (pc[Caller] = "idle" /\ ~NoStoreError) => model = P.model

\* An activateVersion call has completed and has changed both the fields and
\* the versionId of an Active Document.
C34_Witness ==
  /\ Completed("activateVersion")
  /\ NoStoreError
  /\ \E a \in DOMAIN model :
       /\ model[a].link = call[Caller].id
       /\ pre[Caller].model[a].link # call[Caller].id
       /\ pre[Caller].model[a].title # model[a].title

\* C35: without append_only, an Active Document is removed only by a
\* deleteOriginal call for it whose version token equals the document's
\* versionId at the moment of the removal.
C35_RemovesOnlyIfTokenMatches ==
  [][\A a \in DOMAIN model :
       a \notin DOMAIN model' =>
         \E p \in Procs : /\ call[p].op = "deleteOriginal"
                          /\ call[p].versionOfId = a
                          /\ model[a].link = call[p].versionId]_vars

\* C36: when a call of upsertVersion, or of deleteOriginal under append_only,
\* ends after its Version Record was saved without having made it the
\* versionId of an Active Document (upsertVersion) or having removed the
\* Active Document (deleteOriginal), the removal of that record is under way
\* and the caller has its answer while the record is still stored; the end
\* of a removal delivers nothing to any caller; a record whose removal is or
\* was under way is at no time the versionId of an Active Document; and
\* the record is eventually absent unless its removal has failed (the
\* removal is no longer under way and the record is stored).
C36_CompensatingDelete ==
  /\ [][\A p \in Procs :
          (/\ pc[p] \in {"uv_upsert", "uv_update", "do_remove"}
           /\ pc'[p] = "idle"
           /\ call[p].op = "deleteOriginal" => options.append_only
           /\ IF call[p].op = "deleteOriginal" THEN model' = model
              ELSE ~IsActiveIn(model', versDoc[p].id)) =>
            /\ versDoc[p].id \in removals'
            /\ versDoc[p].id \in DOMAIN shadowModel'
            /\ Len(delivered'[p]) = 1]_vars
  /\ [][(removals' # removals /\ removals' \subseteq removals) =>
          delivered' = delivered]_vars
  /\ \A v \in 1..(MaxIds - 1) :
       /\ [](v \in removals => [](~IsActiveIn(model, v)))
       /\ [](IsActiveIn(model, v) => [](v \notin removals))
       /\ [](v \in removals =>
               <>(v \notin DOMAIN shadowModel \/ v \notin removals))

\* upsertVersion was refused for a stale version token and the Version
\* Record it had saved has been removed since.
C36_Witness ==
  /\ Completed("upsertVersion")
  /\ delivered[Caller] = <<[err |-> "conflict", value |-> NoValue]>>
  /\ nextVersion \notin DOMAIN shadowModel
  /\ nextVersion \notin removals

\* C37: without append_only, a call of upsertVersion with an _id and without
\* version token is over at once with an error, and the Active Documents
\* and Version Records are as the call found them.
C37_UpdateWithoutToken ==
  LET c == call[Caller]
  IN (/\ c.op = "upsertVersion"
      /\ c.versionOfId # Null
      /\ c.versionId = Null
      /\ ~options.append_only) =>
       /\ pc[Caller] = "idle"
       /\ delivered[Caller] = <<[err |-> "refused", value |-> NoValue]>>
       /\ StoresUnchanged

\* upsertVersion has been called without version token for a stored Active
\* Document.
C37_Witness ==
  /\ Completed("upsertVersion")
  /\ call[Caller].versionOfId \in DOMAIN model
  /\ call[Caller].versionId = Null
  /\ ~options.append_only
  /\ delivered[Caller] = <<[err |-> "refused", value |-> NoValue]>>

C39_VersionPersistedFirst ==
  \A a \in DOMAIN model : model[a].link \in DOMAIN shadowModel

====
